---- MODULE Spec2Model ----
(***************************************************************************)
(* Safety guardrails of the multi-agent research assistant: the input     *)
(* guardrail, the output guardrail and the SafetyManager that owns both   *)
(* and keeps the safety event log.                                        *)
(*                                                                         *)
(* A Python str is a sequence of one-character strings; the Python value  *)
(* None is the one-element sequence NoneText, which is not a str.          *)
(***************************************************************************)
EXTENDS Integers, Sequences, FiniteSets, TLC

\* ------------------------------------------------------------------ text

NoneText == <<"<None>">>

IsStr(t) == t # NoneText

Digits == {"0", "1", "2", "3", "4", "5", "6", "7", "8", "9"}

UpperCase == <<"A", "B", "C", "D", "E", "F", "G", "H", "I", "J", "K", "L", "M",
               "N", "O", "P", "Q", "R", "S", "T", "U", "V", "W", "X", "Y", "Z">>

LowerCase == <<"a", "b", "c", "d", "e", "f", "g", "h", "i", "j", "k", "l", "m",
               "n", "o", "p", "q", "r", "s", "t", "u", "v", "w", "x", "y", "z">>

UpperSet == {UpperCase[i] : i \in 1..26}

LowerSet == {LowerCase[i] : i \in 1..26}

\* \w of the re module (ASCII part)
WordChar == UpperSet \cup LowerSet \cup Digits \cup {"_"}

\* \s of the re module and the separators of str.split()
WhiteSpace == {" ", "\t", "\n", "\r"}

LowerChar(c) ==
    IF c \in UpperSet
    THEN LowerCase[CHOOSE i \in 1..26 : UpperCase[i] = c]
    ELSE c

\* str.lower()
Lower(t) == [i \in 1..Len(t) |-> LowerChar(t[i])]

\* t[i:i+Len(p)] == p
MatchAt(t, p, i) ==
    /\ i + Len(p) - 1 <= Len(t)
    /\ \A j \in 1..Len(p) : t[i + j - 1] = p[j]

\* p in t
Contains(t, p) == \E i \in 1..(Len(t) - Len(p) + 1) : MatchAt(t, p, i)

\* any(p in t for p in ps)
ContainsAny(t, ps) == \E k \in 1..Len(ps) : Contains(t, ps[k])

\* [p for p in ps if p in t]
RECURSIVE Found(_, _)
Found(t, ps) ==
    IF ps = <<>> THEN <<>>
    ELSE (IF Contains(t, Head(ps)) THEN <<Head(ps)>> ELSE <<>>) \o Found(t, Tail(ps))

\* t[:n]
Take(t, n) == SubSeq(t, 1, IF Len(t) < n THEN Len(t) ELSE n)

\* len(t.split()): the number of maximal runs of non-whitespace characters
WordCount(t) ==
    Cardinality({i \in 1..Len(t) :
        /\ t[i] \notin WhiteSpace
        /\ (i = 1 \/ t[i - 1] \in WhiteSpace)})

\* t.replace(old, new) for a non-empty old: every non-overlapping occurrence,
\* left to right
RECURSIVE ReplaceFrom(_, _, _, _)
ReplaceFrom(t, old, new, i) ==
    IF i > Len(t) THEN <<>>
    ELSE IF MatchAt(t, old, i) THEN new \o ReplaceFrom(t, old, new, i + Len(old))
    ELSE <<t[i]>> \o ReplaceFrom(t, old, new, i + 1)

Replace(t, old, new) == IF old = <<>> THEN t ELSE ReplaceFrom(t, old, new, 1)

\* \b between t[i-1] and t[i]
Boundary(t, i) ==
    LET before == i > 1 /\ i - 1 <= Len(t) /\ t[i - 1] \in WordChar
        after  == i >= 1 /\ i <= Len(t) /\ t[i] \in WordChar
    IN before # after

Redacted == <<"[","R","E","D","A","C","T","E","D","]">>

\* ------------------------------------------------- output guardrail: PII

AlNum == UpperSet \cup LowerSet \cup Digits

\* [A-Za-z0-9._%+-]
EmailLocalChars == AlNum \cup {".", "_", "%", "+", "-"}

\* [A-Za-z0-9.-]
EmailDomainChars == AlNum \cup {".", "-"}

\* [A-Z|a-z]
EmailTldChars == UpperSet \cup LowerSet \cup {"|"}

AllIn(t, from, to, S) == \A k \in from..to : t[k] \in S

Max(S) == CHOOSE m \in S : \A k \in S : k <= m

\* r'\b[A-Za-z0-9._%+-]+@[A-Za-z0-9.-]+\.[A-Z|a-z]{2,}\b' tried at position i:
\* the index of the last character of the match, 0 when there is none.  The
\* local part is the whole run up to the at-sign; the domain is the longest prefix
\* (greedy, then backtracking) after which a dot and a top-level part of two or
\* more characters ending at a word boundary follow, the top-level part being
\* the longest such.
EmailEnd(t, i) ==
    LET n == Len(t)
        A == {a \in i..n : AllIn(t, i, a, EmailLocalChars) /\ a + 1 <= n /\ t[a + 1] = "@"}
    IN IF ~Boundary(t, i) \/ A = {} THEN 0
       ELSE LET d0 == Max(A) + 2
                Tld(e) == {f \in (e + 3)..n :
                              AllIn(t, e + 2, f, EmailTldChars) /\ Boundary(t, f + 1)}
                E == {e \in d0..n : /\ AllIn(t, d0, e, EmailDomainChars)
                                    /\ e + 1 <= n /\ t[e + 1] = "."
                                    /\ Tld(e) # {}}
            IN IF E = {} THEN 0 ELSE Max(Tld(Max(E)))

PhoneSep == {"-"} \cup WhiteSpace

\* r'(?<!/)(?<!\.)\b\d{3}[-\s]\d{3}[-\s]\d{4}\b(?!/)' tried at position i
PhoneEnd(t, i) ==
    IF /\ i + 11 <= Len(t)
       /\ ~(i > 1 /\ t[i - 1] \in {"/", "."})
       /\ Boundary(t, i)
       /\ AllIn(t, i, i + 2, Digits)
       /\ t[i + 3] \in PhoneSep
       /\ AllIn(t, i + 4, i + 6, Digits)
       /\ t[i + 7] \in PhoneSep
       /\ AllIn(t, i + 8, i + 11, Digits)
       /\ Boundary(t, i + 12)
       /\ ~(i + 12 <= Len(t) /\ t[i + 12] = "/")
    THEN i + 11 ELSE 0

\* r'\b\d{3}-\d{2}-\d{4}\b' tried at position i
SsnEnd(t, i) ==
    IF /\ i + 10 <= Len(t)
       /\ Boundary(t, i)
       /\ AllIn(t, i, i + 2, Digits)
       /\ t[i + 3] = "-"
       /\ AllIn(t, i + 4, i + 5, Digits)
       /\ t[i + 6] = "-"
       /\ AllIn(t, i + 7, i + 10, Digits)
       /\ Boundary(t, i + 11)
    THEN i + 10 ELSE 0

PiiTypes == <<"email", "phone", "ssn">>

PatternEnd(pii_type, t, i) ==
    CASE pii_type = "email" -> EmailEnd(t, i)
      [] pii_type = "phone" -> PhoneEnd(t, i)
      [] pii_type = "ssn"   -> SsnEnd(t, i)

\* re.findall(pattern, text): the non-overlapping matches, scanning left to right
RECURSIVE FindAllFrom(_, _, _)
FindAllFrom(pii_type, t, i) ==
    IF i > Len(t) THEN <<>>
    ELSE LET e == PatternEnd(pii_type, t, i)
         IN IF e = 0 THEN FindAllFrom(pii_type, t, i + 1)
            ELSE <<SubSeq(t, i, e)>> \o FindAllFrom(pii_type, t, e + 1)

FindAll(pii_type, t) == FindAllFrom(pii_type, t, 1)

PiiViolation(pii_type, matches) ==
    [validator |-> "pii", pii_type |-> pii_type,
     reason |-> <<"Contains", pii_type>>, severity |-> "high", matches |-> matches]

RECURSIVE CheckPiiFrom(_, _)
CheckPiiFrom(text, k) ==
    IF k > Len(PiiTypes) THEN <<>>
    ELSE LET matches == FindAll(PiiTypes[k], text)
         IN (IF matches # <<>> THEN <<PiiViolation(PiiTypes[k], matches)>> ELSE <<>>)
            \o CheckPiiFrom(text, k + 1)

\* OutputGuardrail._check_pii
CheckPii(text) == CheckPiiFrom(text, 1)

\* A plausible slip: only the first span of a violation is redacted
RedactAll_FirstOnly(text, matches) ==
    IF matches = <<>> THEN text
    ELSE Replace(text, Head(matches), Redacted)

RECURSIVE RedactAll(_, _)
RedactAll(text, matches) ==
    IF matches = <<>> THEN text
    ELSE RedactAll(Replace(text, Head(matches), Redacted), Tail(matches))

RECURSIVE Sanitize(_, _)

\* A plausible slip: every violation that names what it found has it redacted,
\* not the PII violations alone
Sanitize_RedactsAllFindings(text, violations) ==
    IF violations = <<>> THEN text
    ELSE LET v == Head(violations)
         IN Sanitize(IF v.validator = "pii" THEN RedactAll(text, v.matches)
                     ELSE IF v.validator \in {"harmful_content", "bias_detection"}
                     THEN RedactAll(text, v.reason[2])
                     ELSE text,
                     Tail(violations))

\* OutputGuardrail._sanitize
Sanitize(text, violations) ==
    IF violations = <<>> THEN text
    ELSE LET v == Head(violations)
         IN Sanitize(IF v.validator = "pii" THEN RedactAll(text, v.matches) ELSE text,
                     Tail(violations))

\* ------------------------------- output guardrail: keyword checks, validate

\* A configuration key that is not set
Absent == "<absent>"

\* config["safety"].get("prohibited_categories", []) of both guardrails
GuardrailProhibited(config) ==
    IF config.prohibited_categories = <<Absent>> THEN <<>>
    ELSE config.prohibited_categories

InList(x, list) == \E k \in 1..Len(list) : list[k] = x

HarmfulCategories == <<"violent", "hateful", "dangerous", "inappropriate">>

HarmfulPatterns(category) ==
    CASE category = "violent" -> <<<<"k","i","l","l">>, <<"m","u","r","d","e","r">>, <<"v","i","o","l","e","n","c","e">>, <<"a","t","t","a","c","k">>, <<"a","s","s","a","u","l","t">>>>
      [] category = "hateful" -> <<<<"h","a","t","e">>, <<"r","a","c","i","s","t">>, <<"s","e","x","i","s","t">>, <<"d","i","s","c","r","i","m","i","n","a","t","i","o","n">>>>
      [] category = "dangerous" -> <<<<"b","o","m","b">>, <<"w","e","a","p","o","n">>, <<"s","u","i","c","i","d","e">>, <<"s","e","l","f","-","h","a","r","m">>>>
      [] category = "inappropriate" -> <<<<"e","x","p","l","i","c","i","t">>, <<"p","o","r","n","o","g","r","a","p","h","i","c">>, <<"s","e","x","u","a","l">>>>

RECURSIVE CheckHarmfulFrom(_, _, _)

\* A plausible slip: an empty prohibited list checks nothing
CheckHarmfulFrom_EmptyChecksNothing(config, text, k) ==
    IF k > Len(HarmfulCategories) THEN <<>>
    ELSE LET category == HarmfulCategories[k]
             prohibited == GuardrailProhibited(config)
             found == Found(Lower(text), HarmfulPatterns(category))
         IN (IF InList(category, prohibited) /\ found # <<>>
             THEN <<[validator |-> "harmful_content", category |-> category,
                     reason |-> <<"Contains potentially harmful content", found>>,
                     severity |-> "high"]>>
             ELSE <<>>)
            \o CheckHarmfulFrom(config, text, k + 1)

CheckHarmfulFrom(config, text, k) ==
    IF k > Len(HarmfulCategories) THEN <<>>
    ELSE LET category == HarmfulCategories[k]
             prohibited == GuardrailProhibited(config)
             found == Found(Lower(text), HarmfulPatterns(category))
         IN (IF (InList(category, prohibited) \/ prohibited = <<>>) /\ found # <<>>
             THEN <<[validator |-> "harmful_content", category |-> category,
                     reason |-> <<"Contains potentially harmful content", found>>,
                     severity |-> "high"]>>
             ELSE <<>>)
            \o CheckHarmfulFrom(config, text, k + 1)

\* OutputGuardrail._check_harmful_content
CheckHarmfulContent(config, text) == CheckHarmfulFrom(config, text, 1)

BiasTypes == <<"gender", "ageism", "ableism">>

BiasedTerms(bias_type) ==
    CASE bias_type = "gender" -> <<<<"m","a","n","k","i","n","d">>, <<"m","a","n","p","o","w","e","r">>, <<"h","e","/","s","h","e">>>>
      [] bias_type = "ageism" -> <<<<"e","l","d","e","r","l","y">>, <<"o","l","d"," ","p","e","o","p","l","e">>, <<"y","o","u","n","g"," ","p","e","o","p","l","e">>>>
      [] bias_type = "ableism" -> <<<<"c","r","a","z","y">>, <<"i","n","s","a","n","e">>, <<"l","a","m","e">>, <<"b","l","i","n","d"," ","t","o">>>>

RECURSIVE CheckBiasFrom(_, _)
CheckBiasFrom(text, k) ==
    IF k > Len(BiasTypes) THEN <<>>
    ELSE LET found == Found(Lower(text), BiasedTerms(BiasTypes[k]))
         IN (IF found # <<>>
             THEN <<[validator |-> "bias_detection", bias_type |-> BiasTypes[k],
                     reason |-> <<"Contains potentially biased language", found>>,
                     severity |-> "low"]>>
             ELSE <<>>)
            \o CheckBiasFrom(text, k + 1)

\* OutputGuardrail._check_bias
CheckBias(text) == CheckBiasFrom(text, 1)

FabricationIndicators ==
    <<<<"i"," ","t","h","i","n","k">>, <<"i"," ","b","e","l","i","e","v","e">>, <<"p","r","o","b","a","b","l","y">>, <<"m","a","y","b","e">>, <<"m","i","g","h","t"," ","b","e">>,
      <<"n","o","t"," ","s","u","r","e">>, <<"u","n","c","l","e","a","r">>, <<"u","n","c","e","r","t","a","i","n">>>>

\* A plausible slip: the check does not look at whether sources were given
CheckFactualConsistency_IgnoresSources(response, sources) ==
    LET has_citations == Contains(response, <<"[">>) /\ Contains(response, <<"]">>)
        has_references == \/ Contains(Lower(response), <<"r","e","f","e","r","e","n","c","e">>)
                          \/ Contains(Lower(response), <<"s","o","u","r","c","e">>)
        found_indicators == Found(Lower(response), FabricationIndicators)
    IN (IF ~has_citations /\ ~has_references
        THEN <<[validator |-> "factual_consistency",
                reason |-> <<"Response does not cite sources", <<>>>>,
                severity |-> "medium"]>>
        ELSE <<>>)
       \o
       (IF found_indicators # <<>>
        THEN <<[validator |-> "factual_consistency",
                reason |-> <<"Response contains uncertainty indicators", found_indicators>>,
                severity |-> "low"]>>
        ELSE <<>>)

\* OutputGuardrail._check_factual_consistency
CheckFactualConsistency(response, sources) ==
    IF sources = <<>> THEN <<>>
    ELSE LET has_citations == Contains(response, <<"[">>) /\ Contains(response, <<"]">>)
             has_references == \/ Contains(Lower(response), <<"r","e","f","e","r","e","n","c","e">>)
                               \/ Contains(Lower(response), <<"s","o","u","r","c","e">>)
             found_indicators == Found(Lower(response), FabricationIndicators)
         IN (IF ~has_citations /\ ~has_references
             THEN <<[validator |-> "factual_consistency",
                     reason |-> <<"Response does not cite sources", <<>>>>,
                     severity |-> "medium"]>>
             ELSE <<>>)
            \o
            (IF found_indicators # <<>>
             THEN <<[validator |-> "factual_consistency",
                     reason |-> <<"Response contains uncertainty indicators", found_indicators>>,
                     severity |-> "low"]>>
             ELSE <<>>)

\* What one call of the Guardrails AI guard does: it passes the text, reports
\* it with an error span, or raises (the validators are built with
\* on_fail="exception")
GuardOutcomes == {"pass", "fail", "raise"}

GuardViolation ==
    [validator |-> "guardrails_ai", reason |-> <<"error span", <<>>>>, severity |-> "high"]

\* A call that raised: the exception propagates to the caller
Raised(error) == [raised |-> TRUE, error |-> error]

\* A plausible slip: only high-severity violations make the output invalid
OutputVerdict_HighOnly(response, violations) ==
    [raised |-> FALSE,
     valid |-> \A k \in 1..Len(violations) : violations[k].severity # "high",
     violations |-> violations,
     sanitized_output |-> IF violations # <<>> THEN Sanitize(response, violations)
                          ELSE response]

\* OutputGuardrail.validate: the returned dictionary
OutputVerdict(response, violations) ==
    [raised |-> FALSE,
     valid |-> Len(violations) = 0,
     violations |-> violations,
     sanitized_output |-> IF violations # <<>> THEN Sanitize(response, violations)
                          ELSE response]

\* OutputGuardrail.validate, for the guard's outcome in this call
OutputValidate(config, response, sources, guard) ==
    IF ~config.enabled
    THEN [raised |-> FALSE, valid |-> TRUE, violations |-> <<>>, sanitized_output |-> response]
    ELSE IF ~IsStr(response) THEN Raised("TypeError")
    ELSE LET basic == CheckPii(response) \o CheckHarmfulContent(config, response)
             first == IF config.output_guardrails_available
                      THEN CASE guard = "pass"  -> <<>>
                             [] guard = "fail"  -> <<GuardViolation>>
                             [] guard = "raise" -> basic
                      ELSE basic
             violations == first \o CheckBias(response)
                                 \o CheckFactualConsistency(response, sources)
         IN OutputVerdict(response, violations)

\* ------------------------------------------------------- input guardrail

ToxicKeywords ==
    <<<<"v","i","o","l","e","n","t">>, <<"k","i","l","l">>, <<"h","a","r","m">>, <<"a","t","t","a","c","k">>, <<"a","b","u","s","e">>,
      <<"h","a","t","e">>, <<"r","a","c","i","s","t">>, <<"s","e","x","i","s","t">>, <<"o","f","f","e","n","s","i","v","e">>,
      <<"c","r","e","a","t","e"," ","v","i","r","u","s">>, <<"c","r","e","a","t","e"," ","m","a","l","w","a","r","e">>, <<"c","r","e","a","t","e"," ","r","a","n","s","o","m","w","a","r","e">>,
      <<"h","a","c","k"," ","i","n","t","o">>, <<"e","x","p","l","o","i","t"," ","v","u","l","n","e","r","a","b","i","l","i","t","y">>, <<"d","d","o","s"," ","a","t","t","a","c","k">>,
      <<"c","r","e","a","t","e"," ","t","r","o","j","a","n">>, <<"c","r","e","a","t","e"," ","w","o","r","m">>, <<"c","r","e","a","t","e"," ","s","p","y","w","a","r","e">>,
      <<"b","y","p","a","s","s"," ","s","e","c","u","r","i","t","y">>, <<"c","r","a","c","k"," ","p","a","s","s","w","o","r","d">>, <<"s","t","e","a","l"," ","d","a","t","a">>>>

\* InputGuardrail._check_toxic_language
CheckToxicLanguage(text) ==
    LET found_keywords == Found(Lower(text), ToxicKeywords)
    IN IF found_keywords # <<>>
       THEN <<[validator |-> "toxic_language",
               reason |-> <<"Contains potentially toxic language", found_keywords>>,
               severity |-> "high"]>>
       ELSE <<>>

InjectionPatterns ==
    <<<<"i","g","n","o","r","e"," ","p","r","e","v","i","o","u","s">>, <<"i","g","n","o","r","e"," ","a","l","l"," ","p","r","e","v","i","o","u","s">>, <<"d","i","s","r","e","g","a","r","d">>, <<"f","o","r","g","e","t"," ","e","v","e","r","y","t","h","i","n","g">>,
      <<"n","e","w"," ","i","n","s","t","r","u","c","t","i","o","n","s">>, <<"s","y","s","t","e","m"," ","p","r","o","m","p","t">>, <<"y","o","u"," ","a","r","e"," ","n","o","w">>>>

\* InputGuardrail._check_prompt_injection
CheckPromptInjection(text) ==
    LET found_patterns == Found(Lower(text), InjectionPatterns)
    IN IF found_patterns # <<>>
       THEN <<[validator |-> "prompt_injection",
               reason |-> <<"Potential prompt injection detected", found_patterns>>,
               severity |-> "high"]>>
       ELSE <<>>

OffTopicPatterns ==
    <<<<"w","h","a","t","'","s"," ","t","h","e"," ","w","e","a","t","h","e","r">>, <<"w","e","a","t","h","e","r"," ","t","o","d","a","y">>, <<"t","e","l","l"," ","m","e"," ","a"," ","j","o","k","e">>, <<"t","e","l","l"," ","m","e"," ","a"," ","f","u","n","n","y">>,
      <<"t","e","l","l"," ","m","e"," ","s","o","m","e","t","h","i","n","g"," ","f","u","n","n","y">>, <<"m","a","k","e"," ","m","e"," ","l","a","u","g","h">>, <<"p","l","a","y"," ","a"," ","g","a","m","e">>, <<"w","r","i","t","e"," ","a"," ","p","o","e","m">>,
      <<"w","r","i","t","e"," ","m","e"," ","a"," ","p","o","e","m">>, <<"s","o","l","v","e"," ","t","h","i","s"," ","m","a","t","h">>, <<"s","o","l","v","e"," ","m","a","t","h">>, <<"c","a","l","c","u","l","a","t","e">>, <<"r","e","c","i","p","e">>,
      <<"c","o","o","k","i","n","g">>, <<"v","i","r","u","s">>, <<"m","a","l","w","a","r","e">>, <<"r","a","n","s","o","m","w","a","r","e">>, <<"t","r","o","j","a","n">>, <<"w","o","r","m">>, <<"s","p","y","w","a","r","e">>,
      <<"h","a","c","k"," ","i","n","t","o">>, <<"h","a","c","k"," ","a">>, <<"e","x","p","l","o","i","t">>, <<"d","d","o","s">>, <<"c","r","a","c","k"," ","p","a","s","s","w","o","r","d">>, <<"b","y","p","a","s","s"," ","s","e","c","u","r","i","t","y">>>>

MaliciousPatterns ==
    <<<<"h","o","w"," ","t","o"," ","c","r","e","a","t","e">>, <<"h","o","w"," ","t","o"," ","m","a","k","e">>, <<"h","o","w"," ","t","o"," ","b","u","i","l","d">>, <<"s","t","e","p","s"," ","t","o"," ","c","r","e","a","t","e">>,
      <<"g","u","i","d","e"," ","t","o"," ","c","r","e","a","t","i","n","g">>>>

HarmfulTargets == <<<<"v","i","r","u","s">>, <<"m","a","l","w","a","r","e">>, <<"r","a","n","s","o","m","w","a","r","e">>, <<"t","r","o","j","a","n">>, <<"w","o","r","m">>, <<"e","x","p","l","o","i","t">>>>

TopicKeywords ==
    <<<<"s","y","n","t","h","e","t","i","c">>, <<"a","i">>, <<"a","r","t","i","f","i","c","i","a","l"," ","i","n","t","e","l","l","i","g","e","n","c","e">>, <<"g","e","n","e","r","a","t","i","v","e">>,
      <<"v","i","r","t","u","a","l">>, <<"s","i","m","u","l","a","t","i","o","n">>, <<"r","e","a","l","i","t","y">>, <<"w","o","r","l","d">>, <<"e","n","v","i","r","o","n","m","e","n","t">>,
      <<"i","m","m","e","r","s","i","v","e">>, <<"3","d">>, <<"u","n","r","e","a","l">>, <<"u","n","i","t","y">>, <<"m","e","t","a","v","e","r","s","e">>,
      <<"p","r","o","c","e","d","u","r","a","l"," ","g","e","n","e","r","a","t","i","o","n">>, <<"n","e","u","r","a","l"," ","r","e","n","d","e","r","i","n","g">>, <<"h","u","m","a","n","-","a","i">>,
      <<"c","o","-","c","r","e","a","t","i","o","n">>, <<"c","o","l","l","a","b","o","r","a","t","i","o","n">>>>

\* The relevance check looks at more than this many words
RelevanceWordLimit == 10

RelevanceViolation(reason, system_topic, severity) ==
    [validator |-> "relevance", reason |-> <<reason, system_topic>>, severity |-> severity]

\* A plausible slip: the keyword stage starts at ten words, not above ten
CheckRelevance_FromTenWords(config, query) ==
    LET system_topic == Lower(config.topic)
        query_lower == Lower(query)
        has_malicious_intent == ContainsAny(query_lower, MaliciousPatterns)
        has_harmful_target == ContainsAny(query_lower, HarmfulTargets)
    IN IF system_topic = <<>> THEN <<>>
       ELSE IF has_malicious_intent /\ has_harmful_target
       THEN <<RelevanceViolation("Query requests malicious content", system_topic, "high")>>
       ELSE IF ContainsAny(query_lower, OffTopicPatterns)
       THEN <<RelevanceViolation("Query appears off-topic", system_topic, "high")>>
       ELSE IF /\ WordCount(query_lower) >= RelevanceWordLimit
               /\ ~ContainsAny(query_lower, TopicKeywords)
       THEN <<RelevanceViolation("Query does not appear related", system_topic, "medium")>>
       ELSE <<>>

\* A plausible slip: a pattern match does not return, and the keyword stage is
\* evaluated as well
CheckRelevance_NoEarlyReturn(config, query) ==
    LET system_topic == Lower(config.topic)
        query_lower == Lower(query)
        has_malicious_intent == ContainsAny(query_lower, MaliciousPatterns)
        has_harmful_target == ContainsAny(query_lower, HarmfulTargets)
    IN IF system_topic = <<>> THEN <<>>
       ELSE (IF has_malicious_intent /\ has_harmful_target
             THEN <<RelevanceViolation("Query requests malicious content", system_topic, "high")>>
             ELSE IF ContainsAny(query_lower, OffTopicPatterns)
             THEN <<RelevanceViolation("Query appears off-topic", system_topic, "high")>>
             ELSE <<>>)
            \o
            (IF /\ WordCount(query_lower) > RelevanceWordLimit
                /\ ~ContainsAny(query_lower, TopicKeywords)
             THEN <<RelevanceViolation("Query does not appear related", system_topic, "medium")>>
             ELSE <<>>)

\* InputGuardrail._check_relevance
CheckRelevance(config, query) ==
    LET system_topic == Lower(config.topic)
        query_lower == Lower(query)
        has_malicious_intent == ContainsAny(query_lower, MaliciousPatterns)
        has_harmful_target == ContainsAny(query_lower, HarmfulTargets)
    IN IF system_topic = <<>> THEN <<>>
       ELSE IF has_malicious_intent /\ has_harmful_target
       THEN <<RelevanceViolation("Query requests malicious content", system_topic, "high")>>
       ELSE IF ContainsAny(query_lower, OffTopicPatterns)
       THEN <<RelevanceViolation("Query appears off-topic", system_topic, "high")>>
       ELSE IF /\ WordCount(query_lower) > RelevanceWordLimit
               /\ ~ContainsAny(query_lower, TopicKeywords)
       THEN <<RelevanceViolation("Query does not appear related", system_topic, "medium")>>
       ELSE <<>>

MinQueryLen == 5

MaxQueryLen == 2000

LengthViolation(reason, severity) ==
    [validator |-> "length", reason |-> <<reason, <<>>>>, severity |-> severity]

\* InputGuardrail.validate: the returned dictionary
InputVerdict(query, violations) ==
    [raised |-> FALSE,
     valid |-> Len(violations) = 0,
     violations |-> violations,
     sanitized_input |-> query]

\* A plausible slip: the two length limits are compared inclusively
InputValidate_LimitsInclusive(config, query, guard) ==
    IF ~config.enabled
    THEN [raised |-> FALSE, valid |-> TRUE, violations |-> <<>>, sanitized_input |-> query]
    ELSE IF ~IsStr(query) THEN Raised("TypeError")
    ELSE LET length ==
                 (IF Len(query) <= MinQueryLen
                  THEN <<LengthViolation("Query too short", "low")>> ELSE <<>>)
                 \o
                 (IF Len(query) >= MaxQueryLen
                  THEN <<LengthViolation("Query too long", "medium")>> ELSE <<>>)
             rest == IF config.input_guardrails_available
                     THEN CASE guard = "pass"  -> <<>>
                            [] guard = "fail"  -> <<GuardViolation>>
                            [] guard = "raise" -> CheckToxicLanguage(query)
                     ELSE CheckToxicLanguage(query) \o CheckRelevance(config, query)
             violations == length \o CheckPromptInjection(query) \o rest
         IN InputVerdict(query, violations)

\* InputGuardrail.validate, for the guard's outcome in this call
InputValidate(config, query, guard) ==
    IF ~config.enabled
    THEN [raised |-> FALSE, valid |-> TRUE, violations |-> <<>>, sanitized_input |-> query]
    ELSE IF ~IsStr(query) THEN Raised("TypeError")
    ELSE LET length ==
                 (IF Len(query) < MinQueryLen
                  THEN <<LengthViolation("Query too short", "low")>> ELSE <<>>)
                 \o
                 (IF Len(query) > MaxQueryLen
                  THEN <<LengthViolation("Query too long", "medium")>> ELSE <<>>)
             rest == IF config.input_guardrails_available
                     THEN CASE guard = "pass"  -> <<>>
                            [] guard = "fail"  -> <<GuardViolation>>
                            [] guard = "raise" -> CheckToxicLanguage(query)
                     ELSE CheckToxicLanguage(query) \o CheckRelevance(config, query)
             violations == length \o CheckPromptInjection(query) \o rest
         IN InputVerdict(query, violations)

\* --------------------------------------------------------- SafetyManager

\* The cap on the length of the event log explored
MaxEvents == 2

VARIABLES
    config,            \* the configuration the manager was constructed with
    enabled,           \* self.enabled
    log_events,        \* self.log_events
    prohibited_categories, \* self.prohibited_categories
    on_violation,      \* self.on_violation
    input_guardrail,   \* self.input_guardrail: TRUE when constructed, FALSE for None
    output_guardrail,  \* self.output_guardrail: TRUE when constructed, FALSE for None
    safety_events,     \* self.safety_events
    call,              \* the last call on the manager: its arguments and what it returned
                       \* (for clear_events: the call that preceded it)
    pipeline,          \* the process_query call of the orchestrator that owns the manager
    threads,           \* the check calls in flight on the manager, one per calling thread
    completed          \* the threads whose check call has returned, in order of return

vars == <<config, enabled, log_events, prohibited_categories, on_violation,
          input_guardrail, output_guardrail, safety_events, call,
          pipeline, threads, completed>>

\* The threads that call the manager concurrently
Threads == {"A", "B"}

\* No process_query call has been made
NoQuery == [pc |-> "idle"]

\* A thread that is not inside a check call
NotCalling == [pc |-> "idle"]

DefaultProhibited ==
    <<"harmful_content", "personal_attacks", "misinformation", "off_topic_queries">>

DefaultRefusal == <<"I"," ","c","a","n","n","o","t"," ","p","r","o","v","i","d","e"," ","t","h","i","s"," ","r","e","s","p","o","n","s","e"," ","d","u","e"," ","t","o"," ","s","a","f","e","t","y"," ","p","o","l","i","c","i","e","s",".">>

\* on_violation as the configuration file gives it: a mapping with or without
\* its keys, or (an empty "on_violation:" entry) None, which is not a mapping
NotADict == [is_dict |-> FALSE, action |-> Absent, message |-> <<Absent>>]

OnViolationChoices ==
    {[is_dict |-> TRUE, action |-> "refuse", message |-> <<Absent>>],
     [is_dict |-> TRUE, action |-> Absent, message |-> <<"b","l","o","c","k","e","d">>],
     [is_dict |-> TRUE, action |-> "sanitize", message |-> <<Absent>>],
     [is_dict |-> TRUE, action |-> "flag", message |-> <<"b","l","o","c","k","e","d">>],
     NotADict}

ProhibitedChoices == {<<Absent>>}

TopicChoices == {<<"s","y","n","t","h","e","t","i","c"," ","w","o","r","l","d","s">>}

LogFileChoices == {Absent, "safety.log"}

\* config.yaml as loaded, with what construction finds in the environment:
\* whether the Guardrails AI library imports for each guardrail, and whether
\* the two guardrail objects can be constructed at all
AllConfigs ==
    [enabled : BOOLEAN,
     log_events : BOOLEAN,
     prohibited_categories : ProhibitedChoices,
     on_violation : OnViolationChoices,
     safety_log_file : LogFileChoices,
     topic : TopicChoices,
     input_guardrails_available : BOOLEAN,
     output_guardrails_available : BOOLEAN,
     guardrails_constructed : BOOLEAN]

\* The settings of the guardrails, which nothing reads when no guardrail runs
GuardrailDefaults(c) ==
    /\ ~c.input_guardrails_available
    /\ ~c.output_guardrails_available

\* The configurations explored: a setting that no call can read is left at
\* its default (the log file without log_events, every policy setting of a
\* disabled manager, the guardrails' settings when no guardrail exists)
Configs ==
    {c \in AllConfigs :
        /\ c.input_guardrails_available = c.output_guardrails_available
        /\ ~c.log_events => c.safety_log_file = Absent
        /\ ~c.guardrails_constructed => GuardrailDefaults(c)
        /\ ~c.enabled => /\ GuardrailDefaults(c)
                         /\ c.guardrails_constructed
                         /\ c.log_events
                         /\ c.safety_log_file = Absent}

Queries == {NoneText, <<"h","i">>, <<"h","e","l","l","o">>, <<"d","i","s","r","e","g","a","r","d">>}

Responses == {NoneText, <<"o","k">>, <<"a","@","b",".","c","o">>}

SourceLists == {<<>>, <<[title |-> "t", url |-> "u"]>>}

NoCall == [op |-> "none"]

\* SafetyManager.__init__
Init ==
    /\ config \in Configs
    /\ enabled = config.enabled
    /\ log_events = config.log_events
    /\ safety_events = <<>>
    /\ prohibited_categories = IF config.prohibited_categories = <<Absent>>
                               THEN DefaultProhibited
                               ELSE config.prohibited_categories
    /\ on_violation = config.on_violation
    /\ input_guardrail = config.guardrails_constructed
    /\ output_guardrail = config.guardrails_constructed
    /\ call = NoCall
    /\ pipeline = NoQuery
    /\ threads = [t \in Threads |-> NotCalling]
    /\ completed = <<>>

\* content[:100] + "..." if len(content) > 100 else content
PreviewLen == 100

ContentPreview(content) ==
    IF Len(content) > PreviewLen THEN Take(content, PreviewLen) \o <<".",".",".">> ELSE content

\* datetime.now().isoformat(): the clock reading is not modelled
Now == "now"

\* What the environment does during one check call: the guard's outcome, whether
\* the "safety" logger raises in logger.warning, whether appending to the log
\* file fails
Envs == [guard : GuardOutcomes, logger_raises : BOOLEAN, write_fails : BOOLEAN]

\* The environments that can differ for a call: the guard has an outcome only
\* where it exists, the logger is used and the file written only with
\* log_events, and the file is written only if the logger returned
EnvsFor(guard_available) ==
    {env \in Envs :
        /\ ~guard_available => env.guard = "pass"
        /\ env.logger_raises => log_events
        /\ env.write_fails =>
               log_events /\ config.safety_log_file # Absent /\ ~env.logger_raises}

\* A plausible slip: the event is built but never appended
LogSafetyEvent_Drops(event_type, content, violations, is_safe, env) ==
    [events |-> safety_events, raised |-> env.logger_raises, file |-> "untouched"]

\* A plausible slip: the event is inserted at the head of the log
LogSafetyEvent_Prepends(event_type, content, violations, is_safe, env) ==
    [events |-> <<[timestamp |-> Now,
                   type |-> event_type,
                   safe |-> is_safe,
                   violations |-> violations,
                   content_preview |-> ContentPreview(content)]>> \o safety_events,
     raised |-> env.logger_raises,
     file |-> "untouched"]

\* A plausible slip: the write to the log file is not guarded, and its
\* exception leaves _log_safety_event
LogSafetyEvent_WriteRaises(event_type, content, violations, is_safe, env) ==
    [events |-> Append(safety_events,
                       [timestamp |-> Now,
                        type |-> event_type,
                        safe |-> is_safe,
                        violations |-> violations,
                        content_preview |-> ContentPreview(content)]),
     raised |-> env.logger_raises \/ env.write_fails,
     file |-> IF env.logger_raises \/ config.safety_log_file = Absent \/ ~log_events
              THEN "untouched"
              ELSE IF env.write_fails THEN "write failed" ELSE "line written"]

\* SafetyManager._log_safety_event: the log after the call, whether the call
\* raised, and what happened to the log file
LogSafetyEvent(event_type, content, violations, is_safe, env) ==
    LET event == [timestamp |-> Now,
                  type |-> event_type,
                  safe |-> is_safe,
                  violations |-> violations,
                  content_preview |-> ContentPreview(content)]
        appended == Append(safety_events, event)
    IN IF env.logger_raises
       THEN [events |-> appended, raised |-> TRUE, file |-> "untouched"]
       ELSE [events |-> appended, raised |-> FALSE,
             file |-> IF config.safety_log_file # Absent /\ log_events
                      THEN (IF env.write_fails THEN "write failed" ELSE "line written")
                      ELSE "untouched"]

NotLogged == [events |-> safety_events, raised |-> FALSE, file |-> "untouched"]

\* dict.get(key, default) on self.on_violation
OnViolationAction == IF on_violation.action = Absent THEN "refuse" ELSE on_violation.action

OnViolationMessage ==
    IF on_violation.message = <<Absent>> THEN DefaultRefusal ELSE on_violation.message

\* The outcome of a check call: the returned record, the log after the call,
\* the validator's verdict when the validator was called, what happened to the
\* log file, and where an exception reached the manager's handler, if any
Outcome(result, events, verdict, file, failure) ==
    [result |-> result, events |-> events, verdict |-> verdict, file |-> file,
     failure |-> failure]

NoVerdict == [called |-> FALSE]

Verdict(v) == [called |-> TRUE, value |-> v]

\* check_input_safety: the record returned from the except clause
FailOpenInput(error) == [safe |-> TRUE, violations |-> <<>>, error |-> error]

\* A plausible slip: the event is logged whatever the verdict
LogInputEvent_Always(query, result, env) ==
    IF log_events
    THEN LogSafetyEvent("input_violation", query, result.violations, result.valid, env)
    ELSE NotLogged

\* check_input_safety: the event logged for the verdict, if any
LogInputEvent(query, result, env) ==
    IF ~result.valid /\ log_events
    THEN LogSafetyEvent("input_violation", query, result.violations, result.valid, env)
    ELSE NotLogged

\* check_input_safety from the verdict on: the record built from the verdict,
\* or the one of the except clause
CheckInputValidated(result, logged) ==
    IF result.raised
    THEN Outcome(FailOpenInput(result.error), safety_events, Verdict(result),
                 "untouched", "validator")
    ELSE IF logged.raised
    THEN Outcome(FailOpenInput("logger"), logged.events, Verdict(result),
                 logged.file, "logging")
    ELSE Outcome([safe |-> result.valid,
                  violations |-> result.violations,
                  sanitized_query |-> result.sanitized_input],
                 logged.events, Verdict(result), logged.file, "none")

\* check_input_safety once the validator has returned or raised
CheckInputWith(query, result, env) ==
    CheckInputValidated(result,
                        IF result.raised THEN NotLogged
                        ELSE LogInputEvent(query, result, env))

\* check_input_safety with self.enabled set
CheckInputEnabled(query, env) ==
    IF input_guardrail
    THEN CheckInputWith(query, InputValidate(config, query, env.guard), env)
    ELSE Outcome([safe |-> TRUE, violations |-> <<>>], safety_events, NoVerdict,
                 "untouched", "none")

\* SafetyManager.check_input_safety
CheckInputSafety(query, env) ==
    IF ~enabled
    THEN Outcome([safe |-> TRUE, violations |-> <<>>], safety_events, NoVerdict,
                 "untouched", "none")
    ELSE CheckInputEnabled(query, env)

\* A plausible slip: the refuse branch leaves the response in place
ApplyViolationAction_RefuseKeeps(response, sanitized_response) ==
    IF OnViolationAction = "sanitize" THEN sanitized_response ELSE response

\* A plausible slip: the sanitize branch leaves the response in place
ApplyViolationAction_SanitizeKeeps(response, sanitized_response) ==
    IF OnViolationAction = "refuse" THEN OnViolationMessage ELSE response

\* A plausible slip: every action but sanitize is treated as refuse
ApplyViolationAction_ElseRefuses(response, sanitized_response) ==
    IF OnViolationAction = "sanitize" THEN sanitized_response ELSE OnViolationMessage

\* The response check_output_safety puts in place of an unsafe one
ApplyViolationAction(response, sanitized_response) ==
    CASE OnViolationAction = "sanitize" -> sanitized_response
      [] OnViolationAction = "refuse"   -> OnViolationMessage
      [] OTHER                          -> response

\* A plausible slip: the violation action is applied without testing is_safe
ReturnedResponse_Always(is_safe, response, sanitized_response) ==
    ApplyViolationAction(response, sanitized_response)

\* The response field of the record check_output_safety builds
ReturnedResponse(is_safe, response, sanitized_response) ==
    IF ~is_safe THEN ApplyViolationAction(response, sanitized_response) ELSE response

\* A plausible slip: the except clause blocks instead of failing open
FailOpenOutput_Blocks(response, error) ==
    [safe |-> FALSE, violations |-> <<>>, response |-> OnViolationMessage, error |-> error]

\* check_output_safety: the record returned from the except clause
FailOpenOutput(response, error) ==
    [safe |-> TRUE, violations |-> <<>>, response |-> response, error |-> error]

\* response[:200], the content check_output_safety logs
LoggedOutputLen == 200

\* A plausible slip: the event is logged whatever the verdict
LogOutputEvent_Always(response, result, env) ==
    IF log_events
    THEN LogSafetyEvent("output_violation", Take(response, LoggedOutputLen),
                        result.violations, result.valid, env)
    ELSE NotLogged

\* check_output_safety: the event logged for the verdict, if any
LogOutputEvent(response, result, env) ==
    IF ~result.valid /\ log_events
    THEN LogSafetyEvent("output_violation", Take(response, LoggedOutputLen),
                        result.violations, result.valid, env)
    ELSE NotLogged

\* check_output_safety from the verdict on: the record built from the verdict,
\* or the one of the except clause
CheckOutputValidated(response, result, logged) ==
    IF result.raised
    THEN Outcome(FailOpenOutput(response, result.error), safety_events, Verdict(result),
                 "untouched", "validator")
    ELSE IF logged.raised
    THEN Outcome(FailOpenOutput(response, "logger"), logged.events, Verdict(result),
                 logged.file, "logging")
    ELSE IF ~result.valid /\ ~on_violation.is_dict
    THEN Outcome(FailOpenOutput(response, "AttributeError"), logged.events,
                 Verdict(result), logged.file, "action")
    ELSE Outcome([safe |-> result.valid,
                  violations |-> result.violations,
                  response |-> ReturnedResponse(result.valid, response,
                                                result.sanitized_output)],
                 logged.events, Verdict(result), logged.file, "none")

\* check_output_safety once the validator has returned or raised
CheckOutputWith(response, result, env) ==
    CheckOutputValidated(response, result,
                         IF result.raised THEN NotLogged
                         ELSE LogOutputEvent(response, result, env))

\* A plausible slip: a check without its guardrail blocks instead of allowing
CheckOutputEnabled_AbsentBlocks(response, sources, env) ==
    IF output_guardrail
    THEN CheckOutputWith(response, OutputValidate(config, response, sources, env.guard), env)
    ELSE Outcome([safe |-> FALSE, violations |-> <<>>, response |-> OnViolationMessage],
                 safety_events, NoVerdict, "untouched", "none")

\* check_output_safety with self.enabled set
CheckOutputEnabled(response, sources, env) ==
    IF output_guardrail
    THEN CheckOutputWith(response, OutputValidate(config, response, sources, env.guard), env)
    ELSE Outcome([safe |-> TRUE, violations |-> <<>>, response |-> response],
                 safety_events, NoVerdict, "untouched", "none")

\* A plausible slip: the enabled switch is not consulted
CheckOutputSafety_NoSwitch(response, sources, env) ==
    CheckOutputEnabled(response, sources, env)

\* SafetyManager.check_output_safety
CheckOutputSafety(response, sources, env) ==
    IF ~enabled
    THEN Outcome([safe |-> TRUE, response |-> response], safety_events, NoVerdict,
                 "untouched", "none")
    ELSE CheckOutputEnabled(response, sources, env)

\* sum(1 for e in self.safety_events if e["type"] == type)
CountType(type) ==
    Cardinality({i \in 1..Len(safety_events) : safety_events[i].type = type})

\* sum(1 for e in self.safety_events if not e["safe"])
CountUnsafe == Cardinality({i \in 1..Len(safety_events) : ~safety_events[i].safe})

\* violations / total
Ratio(num, den) ==
    IF den = 0 THEN [error |-> "ZeroDivisionError"] ELSE [num |-> num, den |-> den]

\* The int 0
Zero == [num |-> 0, den |-> 1]

\* A plausible slip: the rate is computed without testing for an empty log
SafetyStats_DividesAlways ==
    LET total == Len(safety_events)
    IN [total_events |-> total,
        input_checks |-> CountType("input"),
        output_checks |-> CountType("output"),
        violations |-> CountUnsafe,
        violation_rate |-> Ratio(CountUnsafe, total)]

\* SafetyManager.get_safety_stats
SafetyStats ==
    LET total == Len(safety_events)
        violations == CountUnsafe
    IN [total_events |-> total,
        input_checks |-> CountType("input"),
        output_checks |-> CountType("output"),
        violations |-> violations,
        violation_rate |-> IF total > 0 THEN Ratio(violations, total) ELSE Zero]

\* ---------------------------------------------------------------- actions

\* The attributes __init__ sets and no method assigns
Configured == UNCHANGED <<config, enabled, log_events, prohibited_categories,
                          on_violation, input_guardrail, output_guardrail>>

\* A call made on the manager directly, outside process_query, by one caller
Unchanged == Configured /\ UNCHANGED <<pipeline, threads, completed>>

CheckCall(op, text, sources, outcome) ==
    [op |-> op, text |-> text, sources |-> sources, result |-> outcome.result,
     verdict |-> outcome.verdict, file |-> outcome.file, failure |-> outcome.failure]

\* a call of check_input_safety
CheckInput ==
    \E query \in Queries, env \in EnvsFor(input_guardrail /\ config.input_guardrails_available) :
        \E outcome \in {CheckInputSafety(query, env)} :
           /\ Len(safety_events) < MaxEvents
           /\ safety_events' = outcome.events
           /\ call' = CheckCall("check_input", query, <<>>, outcome)
           /\ Unchanged

\* a call of check_output_safety
CheckOutput ==
    \E response \in Responses, sources \in SourceLists,
       env \in EnvsFor(output_guardrail /\ config.output_guardrails_available) :
        \E outcome \in {CheckOutputSafety(response, sources, env)} :
           /\ Len(safety_events) < MaxEvents
           /\ safety_events' = outcome.events
           /\ call' = CheckCall("check_output", response, sources, outcome)
           /\ Unchanged

\* a call of get_safety_events
GetSafetyEvents ==
    /\ call' = [op |-> "get_safety_events", result |-> safety_events]
    /\ UNCHANGED safety_events
    /\ Unchanged

\* a call of get_safety_stats
GetSafetyStats ==
    /\ call' = [op |-> "get_safety_stats", result |-> SafetyStats]
    /\ UNCHANGED safety_events
    /\ Unchanged

\* The call a clear_events call records as the one before it
Preceding(c) == IF c.op = "clear_events" THEN [op |-> "clear_events"] ELSE c

\* A plausible slip: clearing also resets the violation policy
ClearEvents_Reconfigures ==
    /\ safety_events' = <<>>
    /\ call' = [op |-> "clear_events", before |-> Preceding(call)]
    /\ on_violation' = NotADict
    /\ UNCHANGED <<config, enabled, log_events, prohibited_categories,
                   input_guardrail, output_guardrail, pipeline, threads, completed>>

\* a call of clear_events
ClearEvents ==
    /\ safety_events' = <<>>
    /\ call' = [op |-> "clear_events", before |-> Preceding(call)]
    /\ Unchanged

Next ==
    \/ CheckInput
    \/ CheckOutput
    \/ GetSafetyEvents
    \/ GetSafetyStats
    \/ ClearEvents

Spec == Init /\ [][Next]_vars

IsCheck(c) == c.op \in {"check_input", "check_output"}

\* ------------------------------------------- queries at the length limits

\* A query of n characters
Filled(n) == [i \in 1..n |-> "a"]

\* The queries on either side of the two length limits of InputGuardrail.validate
BoundaryQueries ==
    {Filled(MinQueryLen - 1), Filled(MinQueryLen),
     Filled(MaxQueryLen), Filled(MaxQueryLen + 1)}

\* a call of check_input_safety on a manager just constructed, with a query at
\* a length limit
CheckInputAtLimit ==
    /\ call = NoCall
    /\ \E query \in BoundaryQueries,
          env \in EnvsFor(input_guardrail /\ config.input_guardrails_available) :
           \E outcome \in {CheckInputSafety(query, env)} :
              /\ safety_events' = outcome.events
              /\ call' = CheckCall("check_input", query, <<>>, outcome)
    /\ Unchanged

SpecLimits == Init /\ [][CheckInputAtLimit]_vars

\* ------------------------------------------------------ the request pipeline

\* The default of safety_check.get("sanitized_output", ...) in process_query
BlockedResponse == <<"R","e","s","p","o","n","s","e"," ","b","l","o","c","k","e","d"," ","d","u","e"," ","t","o"," ","s","a","f","e","t","y"," ","v","i","o","l","a","t","i","o","n","s",".">>

\* The final responses the agent team can hand back, and the exceptions it can raise
TeamResponses == {<<"o","k">>, <<"a","@","b",".","c","o">>}

TeamErrors == {"RuntimeError"}

\* The queries the front ends pass to process_query: the text the user typed
UserQueries == {query \in Queries : IsStr(query)}

\* [v.get("reason", "Unknown") for v in violations]
Reasons(violations) == [k \in 1..Len(violations) |-> violations[k].reason]

\* No check_output_safety call was made for the query
NotChecked == [called |-> FALSE]

\* process_query: the response text of the result after the output check
DeliveredText(response_text, safety_check) ==
    IF ~safety_check.safe
    THEN (IF "sanitized_output" \in DOMAIN safety_check
          THEN safety_check.sanitized_output
          ELSE BlockedResponse)
    ELSE response_text

\* process_query up to the start of the agent team: the input check, and the
\* return of the blocked query
ProcessQueryCheckInput ==
    /\ pipeline.pc \in {"idle", "done"}
    /\ Len(safety_events) < MaxEvents
    /\ \E query \in UserQueries,
          env \in EnvsFor(input_guardrail /\ config.input_guardrails_available) :
           \E outcome \in {CheckInputSafety(query, env)} :
              /\ safety_events' = outcome.events
              /\ call' = CheckCall("check_input", query, <<>>, outcome)
              /\ pipeline' =
                     IF outcome.result.safe
                     THEN [pc |-> "admitted", query |-> query,
                           safety_check |-> outcome.result,
                           team_started |-> FALSE, output_check |-> NotChecked]
                     ELSE [pc |-> "done", query |-> query,
                           safety_check |-> outcome.result,
                           team_started |-> FALSE, output_check |-> NotChecked,
                           response |-> [kind |-> "safety_violation",
                                         reasons |-> Reasons(outcome.result.violations)]]
    /\ Configured
    /\ UNCHANGED <<threads, completed>>

\* process_query: the agent team runs in a thread of its own and hands back its
\* result, or raises
RunTeam ==
    /\ pipeline.pc = "admitted"
    /\ \/ \E response \in TeamResponses :
              pipeline' = [pc |-> "generated", query |-> pipeline.query,
                           safety_check |-> pipeline.safety_check,
                           team_started |-> TRUE, output_check |-> NotChecked,
                           generated |-> response]
       \/ \E error \in TeamErrors :
              pipeline' = [pc |-> "raised", query |-> pipeline.query,
                           safety_check |-> pipeline.safety_check,
                           team_started |-> TRUE, output_check |-> NotChecked,
                           exception |-> error]
    /\ UNCHANGED <<safety_events, call, threads, completed>>
    /\ Configured

\* process_query from the team's result on: the output check and the return
ProcessQueryCheckOutput ==
    /\ pipeline.pc = "generated"
    /\ \E env \in EnvsFor(output_guardrail /\ config.output_guardrails_available) :
           \E outcome \in {CheckOutputSafety(pipeline.generated, <<>>, env)} :
              /\ safety_events' = outcome.events
              /\ call' = CheckCall("check_output", pipeline.generated, <<>>, outcome)
              /\ pipeline' =
                     [pc |-> "done", query |-> pipeline.query,
                      safety_check |-> pipeline.safety_check,
                      team_started |-> TRUE,
                      output_check |-> [called |-> TRUE, result |-> outcome.result],
                      response |-> [kind |-> "text",
                                    text |-> DeliveredText(pipeline.generated,
                                                           outcome.result)]]
    /\ Configured
    /\ UNCHANGED <<threads, completed>>

\* process_query: the except clause around the team's run and the output check
ProcessQueryExcept ==
    /\ pipeline.pc = "raised"
    /\ pipeline' = [pc |-> "done", query |-> pipeline.query,
                    safety_check |-> pipeline.safety_check,
                    team_started |-> TRUE, output_check |-> NotChecked,
                    response |-> [kind |-> "error", error |-> pipeline.exception]]
    /\ UNCHANGED <<safety_events, call, threads, completed>>
    /\ Configured

NextPipeline ==
    \/ ProcessQueryCheckInput
    \/ RunTeam
    \/ ProcessQueryCheckOutput
    \/ ProcessQueryExcept

SpecPipeline == Init /\ [][NextPipeline]_vars

\* ------------------------------------------- concurrent callers of a manager

\* The check calls the threads make
ThreadCalls ==
    {[op |-> "check_input", text |-> <<"h","i">>],
     [op |-> "check_input", text |-> <<"h","e","l","l","o">>],
     [op |-> "check_output", text |-> <<"a","@","b",".","c","o">>],
     [op |-> "check_output", text |-> <<"o","k">>]}

\* The guardrail a check method uses, when the method gets as far as using it
Validates(op) ==
    enabled /\ (IF op = "check_input" THEN input_guardrail ELSE output_guardrail)

\* Whether the Guardrails AI guard of that guardrail exists
GuardAvailable(op) ==
    IF op = "check_input"
    THEN input_guardrail /\ config.input_guardrails_available
    ELSE output_guardrail /\ config.output_guardrails_available

\* self.input_guardrail.validate(query) or self.output_guardrail.validate(response, sources)
ThreadVerdict(c, guard) ==
    IF c.op = "check_input"
    THEN InputValidate(config, c.text, guard)
    ELSE OutputValidate(config, c.text, <<>>, guard)

\* `if not is_safe and self.log_events` for the verdict of a call
LogsEvent(verdict) ==
    /\ verdict.called
    /\ ~verdict.value.raised
    /\ ~verdict.value.valid
    /\ log_events

\* An environment in which nothing fails
QuietEnv == [guard |-> "pass", logger_raises |-> FALSE, write_fails |-> FALSE]

\* A thread enters a check method and runs it up to the append of the event:
\* the enabled switch, the validator, the test for logging
ThreadEnter(t) ==
    /\ threads[t].pc = "idle"
    /\ \E c \in ThreadCalls, guard \in GuardOutcomes :
          /\ ~GuardAvailable(c.op) => guard = "pass"
          /\ \E verdict \in {IF Validates(c.op) THEN Verdict(ThreadVerdict(c, guard))
                                              ELSE NoVerdict} :
                threads' = [threads EXCEPT ![t] =
                               [pc |-> IF LogsEvent(verdict) THEN "appending" ELSE "returning",
                                op |-> c.op, text |-> c.text, verdict |-> verdict,
                                slot |-> 0, raised |-> FALSE, file |-> "untouched"]]
    /\ UNCHANGED <<safety_events, call, pipeline, completed>>
    /\ Configured

\* The arguments a check method passes to _log_safety_event
LoggedContent(th) ==
    IF th.op = "check_input" THEN th.text ELSE Take(th.text, LoggedOutputLen)

\* The log after the thread's self.safety_events.append(event)
Appended(th) ==
    LogSafetyEvent(IF th.op = "check_input" THEN "input_violation" ELSE "output_violation",
                   LoggedContent(th), th.verdict.value.violations,
                   th.verdict.value.valid, QuietEnv).events

\* A plausible slip: the log is written back from a copy read before the append
\* of a thread that is still inside its call, whose event is lost
ThreadAppend_LostUpdate(t) ==
    /\ threads[t].pc = "appending"
    /\ IF \E u \in Threads \ {t} :
              /\ threads[u].pc \in {"warning", "writing", "returning"}
              /\ threads[u].slot = Len(safety_events)
              /\ threads[u].slot > 0
       THEN safety_events' = [safety_events EXCEPT
                                 ![Len(safety_events)] = Appended(threads[t])[Len(safety_events) + 1]]
       ELSE safety_events' = Appended(threads[t])
    /\ threads' = [threads EXCEPT ![t].pc = "warning", ![t].slot = Len(safety_events')]
    /\ UNCHANGED <<call, pipeline, completed>>
    /\ Configured

\* _log_safety_event: the list.append of the event the thread built, which the
\* interpreter runs as one step
ThreadAppend(t) ==
    /\ threads[t].pc = "appending"
    /\ safety_events' = Appended(threads[t])
    /\ threads' = [threads EXCEPT ![t].pc = "warning", ![t].slot = Len(safety_events')]
    /\ UNCHANGED <<call, pipeline, completed>>
    /\ Configured

\* _log_safety_event: self.logger.warning, which returns or raises
ThreadWarn(t) ==
    /\ threads[t].pc = "warning"
    /\ \E raises \in BOOLEAN :
          threads' = [threads EXCEPT
                         ![t].raised = raises,
                         ![t].pc = IF raises THEN "returning"
                                   ELSE IF config.safety_log_file # Absent /\ log_events
                                   THEN "writing"
                                   ELSE "returning"]
    /\ UNCHANGED <<safety_events, call, pipeline, completed>>
    /\ Configured

\* _log_safety_event: the write of the event to the log file, which may fail
ThreadWrite(t) ==
    /\ threads[t].pc = "writing"
    /\ \E fails \in BOOLEAN :
          threads' = [threads EXCEPT
                         ![t].file = IF fails THEN "write failed" ELSE "line written",
                         ![t].pc = "returning"]
    /\ UNCHANGED <<safety_events, call, pipeline, completed>>
    /\ Configured

\* The record the thread's check call returns
ThreadResult(th) ==
    IF ~th.verdict.called
    THEN (IF th.op = "check_input"
          THEN CheckInputSafety(th.text, QuietEnv).result
          ELSE CheckOutputSafety(th.text, <<>>, QuietEnv).result)
    ELSE IF th.op = "check_input"
    THEN CheckInputValidated(th.verdict.value,
                             [events |-> safety_events, raised |-> th.raised,
                              file |-> th.file]).result
    ELSE CheckOutputValidated(th.text, th.verdict.value,
                              [events |-> safety_events, raised |-> th.raised,
                               file |-> th.file]).result

\* The check method returns to the thread that called it
ThreadReturn(t) ==
    /\ threads[t].pc = "returning"
    /\ threads' = [threads EXCEPT ![t] =
                      [pc |-> "returned", op |-> threads[t].op, text |-> threads[t].text,
                       verdict |-> threads[t].verdict, slot |-> threads[t].slot,
                       raised |-> threads[t].raised, file |-> threads[t].file,
                       result |-> ThreadResult(threads[t])]]
    /\ completed' = Append(completed, t)
    /\ UNCHANGED <<safety_events, call, pipeline>>
    /\ Configured

NextThreads ==
    \E t \in Threads :
        \/ ThreadEnter(t)
        \/ ThreadAppend(t)
        \/ ThreadWarn(t)
        \/ ThreadWrite(t)
        \/ ThreadReturn(t)

SpecThreads == Init /\ [][NextThreads]_vars

\* ------------------------------------------ the validators on their own

\* safety.prohibited_categories as config.yaml may give it: left out, empty,
\* naming one of the categories of the harmful-content table, or naming none
\* of them (the list SafetyManager falls back to)
ProhibitedLists == {<<Absent>>, <<>>, <<"violent">>, DefaultProhibited}

\* system.topic: left out (the empty string) or set
ValidatorTopics == {<<>>, <<"s","y","n","t","h","e","t","i","c"," ","w","o","r","l","d","s">>}

\* The configurations the validators are constructed with: the settings only
\* the manager reads are fixed, and a disabled validator reads none
ValidatorConfigs ==
    {c \in [enabled : BOOLEAN,
            log_events : {TRUE},
            prohibited_categories : ProhibitedLists,
            on_violation : {[is_dict |-> TRUE, action |-> "sanitize", message |-> <<Absent>>]},
            safety_log_file : {Absent},
            topic : ValidatorTopics,
            input_guardrails_available : BOOLEAN,
            output_guardrails_available : BOOLEAN,
            guardrails_constructed : {TRUE}] :
        /\ c.input_guardrails_available = c.output_guardrails_available
        /\ ~c.enabled => /\ GuardrailDefaults(c)
                         /\ c.prohibited_categories = <<Absent>>
                         /\ c.topic = <<>>}

\* The queries given to InputGuardrail.validate
QueryCorpus ==
    {<<"h","e","l","l","o">>,
     <<"k","i","l","l">>,
     <<"i"," ","h","a","t","e"," ","i","t">>,
     <<"i","g","n","o","r","e"," ","p","r","e","v","i","o","u","s"," ","r","u","l","e","s">>,
     <<"t","e","l","l"," ","m","e"," ","a"," ","j","o","k","e">>,
     <<"T","e","l","l"," ","m","e"," ","a"," ","j","o","k","e">>,
     <<"h","o","w"," ","t","o"," ","m","a","k","e"," ","a"," ","w","o","r","m">>,
     <<"a"," ","b"," ","c"," ","d"," ","e"," ","f"," ","g"," ","h"," ","i"," ","j">>,
     <<"a"," ","b"," ","c"," ","d"," ","e"," ","f"," ","g"," ","h"," ","i"," "," ","j">>,
     <<"a"," ","b"," ","c"," ","d"," ","e"," ","f"," ","g"," ","h"," ","i"," ","j"," ","k">>,
     <<"a"," ","b"," ","c"," ","d"," ","e"," ","f"," ","g"," ","h"," ","i"," ","j"," ","a","i">>,
     <<"t","e","l","l"," ","m","e"," ","a"," ","j","o","k","e"," ","a"," ","b"," ","c"," ","d"," ","e"," ","f"," ","g"," ","h">>,
     <<"H","o","w"," ","c","a","n"," ","p","r","o","c","e","d","u","r","a","l"," ","g","e","n","e","r","a","t","i","o","n"," ","t","e","c","h","n","i","q","u","e","s"," ","b","e"," ","c","o","m","b","i","n","e","d"," ","w","i","t","h"," ","m","a","c","h","i","n","e"," ","l","e","a","r","n","i","n","g"," ","f","o","r"," ","w","o","r","l","d"," ","b","u","i","l","d","i","n","g","?">>}

\* The responses given to OutputGuardrail.validate
ResponseCorpus ==
    {<<"o","k">>,
     <<"a","@","b",".","c","o">>,
     <<"a","@","b",".","c","o"," ","a","@","b",".","c","o">>,
     <<"a","@","b",".","c","o"," ","a","a","@","b",".","c","o">>,
     <<"a","@","b",".","c","o"," ","c","@","d",".","c","o">>,
     <<"1","2","3","-","4","5","-","6","7","8","9">>,
     <<"5","5","5","-","1","2","3","-","4","5","6","7","@","b",".","c","o">>,
     <<"C","o","n","t","a","c","t"," ","m","e"," ","a","t"," ","a","@","b",".","c","o","m"," ","o","r"," ","c","a","l","l"," ","5","5","5","-","1","2","3","-","4","5","6","7">>,
     <<"1","2","3","-","4","5","-","6","7","8","9","1","1","1","-","2","2","2","-","3","3","3","3"," ","1","1","1","-","2","2","2","-","3","3","3","3">>,
     <<"a"," ","b","o","m","b">>,
     <<"k","i","l","l"," ","h","a","t","e">>,
     <<"c","r","a","z","y">>,
     <<"m","a","y","b","e">>,
     <<"[","1","]"," ","m","a","y","b","e">>,
     <<"s","e","e"," ","s","o","u","r","c","e">>,
     <<"k","i","l","l"," ","a","@","b",".","c","o"," ","m","a","y","b","e">>}

\* SafetyManager.__init__ for a configuration of the validators' corpus: the
\* two guardrails are constructed with the same configuration
InitValidators ==
    /\ config \in ValidatorConfigs
    /\ enabled = config.enabled
    /\ log_events = config.log_events
    /\ safety_events = <<>>
    /\ prohibited_categories = IF config.prohibited_categories = <<Absent>>
                               THEN DefaultProhibited
                               ELSE config.prohibited_categories
    /\ on_violation = config.on_violation
    /\ input_guardrail = config.guardrails_constructed
    /\ output_guardrail = config.guardrails_constructed
    /\ call = NoCall
    /\ pipeline = NoQuery
    /\ threads = [t \in Threads |-> NotCalling]
    /\ completed = <<>>

\* The outcomes the Guardrails AI guard can have in a call: none to choose
\* from when the guard was not built
GuardsFor(available) == IF available THEN GuardOutcomes ELSE {"pass"}

\* A call of a validator: its arguments, the guard's outcome, the verdict
ValidatorCall(op, text, sources, guard, verdict) ==
    [op |-> op, text |-> text, sources |-> sources, guard |-> guard, verdict |-> verdict]

\* a call of InputGuardrail.validate on a guardrail just constructed
ValidateInput ==
    /\ call = NoCall
    /\ \E query \in QueryCorpus, guard \in GuardsFor(config.input_guardrails_available) :
           call' = ValidatorCall("validate_input", query, <<>>, guard,
                                 InputValidate(config, query, guard))
    /\ UNCHANGED safety_events
    /\ Unchanged

\* a call of OutputGuardrail.validate on a guardrail just constructed
ValidateOutput ==
    /\ call = NoCall
    /\ \E response \in ResponseCorpus, sources \in SourceLists,
          guard \in GuardsFor(config.output_guardrails_available) :
           call' = ValidatorCall("validate_output", response, sources, guard,
                                 OutputValidate(config, response, sources, guard))
    /\ UNCHANGED safety_events
    /\ Unchanged

\* a second call of OutputGuardrail.validate, on the sanitized text the first
\* one returned
RevalidateOutput ==
    /\ call # NoCall
    /\ call.op = "validate_output"
    /\ \E guard \in GuardsFor(config.output_guardrails_available) :
           call' = [op |-> "revalidate_output",
                    text |-> call.verdict.sanitized_output,
                    sources |-> call.sources,
                    guard |-> guard,
                    verdict |-> OutputValidate(config, call.verdict.sanitized_output,
                                               call.sources, guard),
                    first |-> call]
    /\ UNCHANGED safety_events
    /\ Unchanged

NextValidators ==
    \/ ValidateInput
    \/ ValidateOutput
    \/ RevalidateOutput

SpecValidators == InitValidators /\ [][NextValidators]_vars

\* ----------------------------------------------------------- properties

\* The texts of the corpus the properties name
EmailOnly == <<"a","@","b",".","c","o">>

\* The violations of a returned record; a record without the key carries none
Violations(record) == IF "violations" \in DOMAIN record THEN record.violations ELSE <<>>

\* The validator was called, returned, and reported at least one violation
HasViolations(verdict) ==
    verdict.called /\ ~verdict.value.raised /\ verdict.value.violations # <<>>

\* The text occurs in the response of the record or in a span its violations carry
RecordContains(record, text) ==
    \/ Contains(record.response, text)
    \/ \E k \in 1..Len(Violations(record)) :
           /\ "matches" \in DOMAIN record.violations[k]
           /\ \E j \in 1..Len(record.violations[k].matches) :
                  Contains(record.violations[k].matches[j], text)

\* check_output_safety returned an unsafe record under the action refuse
RefusedCall ==
    /\ call.op = "check_output"
    /\ enabled
    /\ ~call.result.safe
    /\ OnViolationAction = "refuse"

\* C1 as stated: an unsafe output under the action refuse is returned with the
\* refusal message as its response, and the generated text occurs nowhere in
\* the returned record.
C1_RefuseDiscardsText ==
    RefusedCall =>
        /\ call.result.response = OnViolationMessage
        /\ ~RecordContains(call.result, call.text)

\* C1 amended: an unsafe output under the action refuse is returned with the
\* refusal message (the built-in one when none is configured) as its response;
\* the record holds nothing but safe, response and the validator's violations,
\* whose PII spans are literal pieces of the generated text.
C1_RefuseReplacesResponse ==
    RefusedCall =>
        /\ call.result.response = OnViolationMessage
        /\ DOMAIN call.result = {"safe", "violations", "response"}
        /\ call.result.violations = call.verdict.value.violations

C1_Witness ==
    /\ RefusedCall
    /\ call.text = EmailOnly
    /\ call.result.response = OnViolationMessage
    /\ call.result.response # call.text

\* check_output_safety returned an unsafe record under the action sanitize
SanitizedCall ==
    /\ call.op = "check_output"
    /\ enabled
    /\ ~call.result.safe
    /\ OnViolationAction = "sanitize"

\* No span a PII violation of the verdict carries occurs in the text
NoSpanLeft(violations, text) ==
    \A k \in 1..Len(violations) :
        violations[k].validator = "pii" =>
            \A j \in 1..Len(violations[k].matches) :
                ~Contains(text, violations[k].matches[j])

\* C2: an unsafe output under the action sanitize is returned unsafe, with the
\* output guardrail's sanitized text of that response as its response, in which
\* no matched PII span is left.
C2_SanitizeReturnsSanitized ==
    SanitizedCall =>
        /\ call.verdict.called
        /\ call.result.response = call.verdict.value.sanitized_output
        /\ NoSpanLeft(call.verdict.value.violations, call.result.response)
        /\ call.result.violations = call.verdict.value.violations

C2_Witness ==
    /\ SanitizedCall
    /\ call.text = EmailOnly
    /\ call.result.response = Redacted

\* C3: a record check_output_safety returns as safe carries the response that
\* was passed in, whatever the violation action.
C3_SafePassesThrough ==
    (call.op = "check_output" /\ call.result.safe) => call.result.response = call.text

C3_Witness ==
    /\ call.op = "check_output"
    /\ enabled
    /\ call.verdict.called
    /\ ~call.verdict.value.raised
    /\ call.verdict.value.valid
    /\ call.result.safe
    /\ OnViolationAction = "refuse"
    /\ call.result.response = call.text

\* C4: a check call in which an exception reached the manager (from the
\* validator, from logging the event, or from applying the violation action)
\* returns safe with no violations and the error recorded, and check_output
\* returns the response it was given.
C4_FailOpen ==
    (IsCheck(call) /\ call.failure # "none") =>
        /\ call.result.safe
        /\ "violations" \in DOMAIN call.result
        /\ call.result.violations = <<>>
        /\ "error" \in DOMAIN call.result
        /\ call.op = "check_output" => call.result.response = call.text

C4_Witness ==
    /\ call.op = "check_output"
    /\ call.failure = "action"
    /\ HasViolations(call.verdict)
    /\ call.result.safe

\* C5: on a disabled manager a check call returns safe without violations, calls
\* no validator, returns the response it was given and leaves the event log as
\* it was.
C5_DisabledChecksNothing ==
    [][(~enabled /\ IsCheck(call')) =>
          /\ call'.result.safe
          /\ Violations(call'.result) = <<>>
          /\ ~call'.verdict.called
          /\ call'.failure = "none"
          /\ call'.op = "check_output" => call'.result.response = call'.text
          /\ safety_events' = safety_events]_vars

C5_Witness ==
    /\ ~enabled
    /\ call.op = "check_output"
    /\ call.text = EmailOnly
    /\ call.result.safe

DirectionTag(op) == IF op = "check_input" THEN "input_violation" ELSE "output_violation"

\* The step appended exactly one event, tagged with the direction of the call
AppendedOne ==
    /\ Len(safety_events') = Len(safety_events) + 1
    /\ SubSeq(safety_events', 1, Len(safety_events)) = safety_events
    /\ safety_events'[Len(safety_events')].type = DirectionTag(call'.op)
    /\ safety_events'[Len(safety_events')].violations = call'.verdict.value.violations

\* C6 as stated: a check call on an enabled manager whose verdict has a
\* violation appends exactly one event, tagged with the call's direction.
C6_ViolationAppendsEvent ==
    [][(enabled /\ IsCheck(call') /\ HasViolations(call'.verdict)) => AppendedOne]_vars

\* C6 amended: a check call on an enabled manager with log_events set whose
\* verdict has a violation appends exactly one event, tagged with the call's
\* direction.
C6_ViolationAppendsEventWhenLogging ==
    [][(enabled /\ log_events /\ IsCheck(call') /\ HasViolations(call'.verdict))
          => AppendedOne]_vars

C6_Witness ==
    /\ log_events
    /\ call.op = "check_input"
    /\ HasViolations(call.verdict)
    /\ Len(safety_events) = 2
    /\ safety_events[1].type = "output_violation"
    /\ safety_events[2].type = "input_violation"

\* C7: a record a check call returns is safe exactly when it carries no
\* violation, and a verdict a guardrail returns is valid exactly when it
\* carries no violation.
C7_SafeIffNoViolations ==
    IsCheck(call) =>
        /\ call.result.safe = (Violations(call.result) = <<>>)
        /\ (call.verdict.called /\ ~call.verdict.value.raised) =>
               call.verdict.value.valid = (call.verdict.value.violations = <<>>)

C7_Witness ==
    /\ call.op = "check_output"
    /\ HasViolations(call.verdict)
    /\ ~call.result.safe
    /\ \A k \in 1..Len(call.result.violations) : call.result.violations[k].severity # "high"

\* C8: get_safety_stats reports as input_checks the number of logged events
\* that check_input produced, as output_checks the number check_output
\* produced, and the two add up to total_events.
C8_StatsCountDirections ==
    call.op = "get_safety_stats" =>
        /\ call.result.input_checks = CountType(DirectionTag("check_input"))
        /\ call.result.output_checks = CountType(DirectionTag("check_output"))
        /\ call.result.input_checks + call.result.output_checks = call.result.total_events

\* C9: get_safety_stats changes nothing, reports the length of the log as
\* total_events and the number of unsafe events as violations, and its
\* violation_rate is their quotient, or 0 for an empty log, never a division
\* error.
C9_StatsAggregate ==
    [][call'.op = "get_safety_stats" =>
          LET stats == call'.result
              unsafe == Len(SelectSeq(safety_events, LAMBDA e : ~e.safe))
          IN /\ safety_events' = safety_events
             /\ Unchanged
             /\ stats.total_events = Len(safety_events)
             /\ stats.violations = unsafe
             /\ "error" \notin DOMAIN stats.violation_rate
             /\ IF Len(safety_events) > 0
                THEN stats.violation_rate.num * Len(safety_events)
                         = unsafe * stats.violation_rate.den
                ELSE stats.violation_rate.num = 0]_vars

C9_Witness ==
    /\ call.op = "get_safety_stats"
    /\ call.result.total_events = 2
    /\ call.result.violations = 2
    /\ call.result.violation_rate = [num |-> 2, den |-> 2]

\* What the check call c returns when it is made again in environment env
Recheck(c, env) ==
    IF c.op = "check_input"
    THEN CheckInputSafety(c.text, env).result
    ELSE CheckOutputSafety(c.text, c.sources, env).result

\* C10: clear_events empties the log and changes nothing else; after it the
\* statistics report no event and rate 0, and the check made before it returns
\* the same record when it is made again.
C10_ClearOnlyEmptiesLog ==
    /\ [][call'.op = "clear_events" => (safety_events' = <<>> /\ Unchanged)]_vars
    /\ [](call.op = "clear_events" =>
            /\ SafetyStats.total_events = 0
            /\ SafetyStats.violation_rate = Zero
            /\ IsCheck(call.before) =>
                   \E env \in Envs : Recheck(call.before, env) = call.before.result)

C10_Witness ==
    /\ call.op = "clear_events"
    /\ safety_events = <<>>
    /\ call.before.op = "check_output"
    /\ ~call.before.result.safe
    /\ SafetyStats.total_events = 0

\* The sequence s is an initial part of the sequence t
IsPrefix(s, t) == Len(s) <= Len(t) /\ SubSeq(t, 1, Len(s)) = s

\* C11: across every step that is not clear_events (check_input, check_output,
\* get_safety_stats, get_safety_events) the log before the step is a prefix of
\* the log after it: no event is removed, reordered or modified.
C11_AppendOnlyBetweenClears ==
    [][call'.op # "clear_events" => IsPrefix(safety_events, safety_events')]_vars

C11_Witness ==
    /\ call.op = "check_output"
    /\ HasViolations(call.verdict)
    /\ Len(safety_events) = 2
    /\ safety_events[1].type = "input_violation"
    /\ safety_events[2].type = "output_violation"

\* C12 as stated: every check call on an enabled manager adds exactly one event
\* to the log, whether or not its verdict was valid, so that n such calls
\* without a clear leave n events.
C12_EventPerCheck ==
    [][(enabled /\ IsCheck(call')) => Len(safety_events') = Len(safety_events) + 1]_vars

\* C12 amended: a check call on an enabled manager adds exactly one event to the
\* log when log_events is set and its verdict has a violation, and none
\* otherwise, so that n such calls without a clear leave as many events as
\* there were violating verdicts among them.
C12_EventPerViolatingCheck ==
    [][(enabled /\ IsCheck(call')) =>
          Len(safety_events') = Len(safety_events)
              + (IF log_events /\ HasViolations(call'.verdict) THEN 1 ELSE 0)]_vars

C12_Witness ==
    /\ enabled
    /\ log_events
    /\ call.op = "check_input"
    /\ call.verdict.called
    /\ ~call.verdict.value.raised
    /\ call.verdict.value.valid
    /\ Len(safety_events) = 1

\* The terminal outcomes of a check_output call
EndedSafe == call.result.safe /\ call.result.response = call.text

EndedSanitized ==
    /\ ~call.result.safe
    /\ OnViolationAction = "sanitize"
    /\ call.result.response = call.verdict.value.sanitized_output

EndedRefused ==
    /\ ~call.result.safe
    /\ OnViolationAction = "refuse"
    /\ call.result.response = OnViolationMessage

\* Unsafe, with the response that was passed in
EndedUnsafeUnmodified == ~call.result.safe /\ call.result.response = call.text

\* Some violation of the verdict is a PII violation
HasPii(verdict) ==
    \E k \in 1..Len(verdict.value.violations) : verdict.value.violations[k].validator = "pii"

\* C13 as stated: a check_output call on an enabled manager ends Safe, Sanitized
\* or Refused, an errored check ends Safe, and no call ends unsafe with the
\* response it was given.
C13_ThreeOutcomes ==
    (call.op = "check_output" /\ enabled) =>
        /\ EndedSafe \/ EndedSanitized \/ EndedRefused
        /\ call.failure # "none" => EndedSafe
        /\ ~EndedUnsafeUnmodified

\* C13 amended: a check_output call on an enabled manager ends Safe, Sanitized
\* (with the validator's sanitized text, which is the response it was given
\* unless a PII span was redacted), Refused, or, under an action that is neither
\* sanitize nor refuse, unsafe with the response it was given; an errored check
\* ends Safe.
C13_TerminalOutcomes ==
    (call.op = "check_output" /\ enabled) =>
        /\ \/ EndedSafe
           \/ EndedSanitized /\ (call.result.response # call.text <=> HasPii(call.verdict))
           \/ EndedRefused
           \/ EndedUnsafeUnmodified /\ OnViolationAction \notin {"sanitize", "refuse"}
        /\ call.failure # "none" => EndedSafe

C13_Witness ==
    /\ call.op = "check_output"
    /\ enabled
    /\ EndedSanitized
    /\ EndedUnsafeUnmodified
    /\ ~HasPii(call.verdict)

\* C14: in process_query the agent team is started only after check_input
\* returned safe for the query, and a response delivered after the team ran
\* has been passed through check_output, also when the team raised.
C14_EveryTextInspected ==
    /\ (pipeline.pc # "idle" /\ pipeline.team_started) => pipeline.safety_check.safe
    /\ (pipeline.pc = "done" /\ pipeline.team_started) => pipeline.output_check.called

\* C15: when check_output reports an unsafe response, the text process_query
\* delivers is the response field of the record check_output returned.
C15_DeliversCheckedResponse ==
    (pipeline.pc = "done" /\ pipeline.output_check.called
        /\ ~pipeline.output_check.result.safe) =>
        pipeline.response = [kind |-> "text", text |-> pipeline.output_check.result.response]

\* The event a thread's call is to leave in the log, every field filled in
OwnEvent(th) ==
    [timestamp |-> Now,
     type |-> DirectionTag(th.op),
     safe |-> FALSE,
     violations |-> th.verdict.value.violations,
     content_preview |-> ContentPreview(LoggedContent(th))]

\* The threads in the set have one slot of the log each, holding their event,
\* and the log holds nothing else
LogHoldsExactly(owners) ==
    /\ Len(safety_events) = Cardinality(owners)
    /\ \A t \in owners :
          /\ threads[t].slot \in 1..Len(safety_events)
          /\ safety_events[threads[t].slot] = OwnEvent(threads[t])
    /\ \A t, u \in owners : t # u => threads[t].slot # threads[u].slot

\* The thread's call has a violating verdict and is past its append
PastAppend(t) ==
    /\ threads[t].pc \notin {"idle", "appending"}
    /\ HasViolations(threads[t].verdict)

\* C16 as stated: under every interleaving of concurrent check calls, each
\* violating call contributes exactly one fully-constructed event: the log
\* holds one event for each violating call, none lost, duplicated or partial.
C16_EveryViolationLogged ==
    LogHoldsExactly({t \in Threads : PastAppend(t)})

\* C16 amended: under every interleaving of concurrent check calls on a manager
\* with log_events set, each violating call contributes exactly one
\* fully-constructed event; without log_events no call contributes any.
C16_EveryViolationLoggedWhenLogging ==
    LogHoldsExactly({t \in Threads : PastAppend(t) /\ log_events})

C16_Witness ==
    /\ log_events
    /\ \A t \in Threads : threads[t].pc = "returned" /\ HasViolations(threads[t].verdict)
    /\ Len(safety_events) = 2
    /\ threads[completed[1]].slot = 2
    /\ threads["A"].op # threads["B"].op

\* C17: of two violating check calls, the one that returns first has its
\* event earlier in the log.
C17_LogInCompletionOrder ==
    \A i, j \in 1..Len(completed) :
        (/\ i < j
         /\ threads[completed[i]].slot > 0
         /\ threads[completed[j]].slot > 0)
        => threads[completed[i]].slot < threads[completed[j]].slot

\* The outcome of the check call c when it is made in environment env
RecheckOutcome(c, env) ==
    IF c.op = "check_input"
    THEN CheckInputSafety(c.text, env)
    ELSE CheckOutputSafety(c.text, c.sources, env)

\* The environment differs from the one of the last call in nothing but the
\* write to the log file, which succeeds
SameButWritten(env) ==
    /\ ~env.logger_raises
    /\ ~env.write_fails
    /\ RecheckOutcome(call, env).verdict = call.verdict

\* C18: a check call during which the write to the log file failed returns the
\* record the same call returns when the write succeeds, no exception of the
\* write reaches the manager's handler or the caller, and the event is in the
\* log.
C18_WriteFailureSwallowed ==
    (IsCheck(call) /\ call.file = "write failed") =>
        /\ call.failure # "logging"
        /\ \E env \in Envs : SameButWritten(env)
        /\ \A env \in Envs :
              SameButWritten(env) =>
                  /\ RecheckOutcome(call, env).result = call.result
                  /\ RecheckOutcome(call, env).file = "line written"
        /\ Len(safety_events) > 0
        /\ safety_events[Len(safety_events)].type = DirectionTag(call.op)
        /\ safety_events[Len(safety_events)].violations = call.verdict.value.violations

C18_Witness ==
    /\ call.op = "check_output"
    /\ call.file = "write failed"
    /\ call.failure = "none"
    /\ ~call.result.safe
    /\ Len(safety_events) = 1

\* The policy configuration is malformed: on_violation is not a mapping
MalformedPolicy(c) == ~c.on_violation.is_dict

\* C19: a manager constructed with a malformed policy configuration does not
\* exist, so it answers no check_input or check_output call.
C19_MalformedConfigIsFatal ==
    MalformedPolicy(config) => ~IsCheck(call)

\* The length violations among the violations of a record
LengthViolations(record) ==
    SelectSeq(Violations(record), LAMBDA v : v.validator = "length")

\* What check_input is to report about the length of the query of the last call
LengthReported ==
    LET found == LengthViolations(call.result)
    IN /\ Len(call.text) < MinQueryLen =>
              /\ ~call.result.safe
              /\ Len(found) = 1
              /\ found[1].severity = "low"
       /\ Len(call.text) > MaxQueryLen =>
              /\ ~call.result.safe
              /\ Len(found) = 1
              /\ found[1].severity = "medium"
       /\ (Len(call.text) >= MinQueryLen /\ Len(call.text) <= MaxQueryLen) =>
              found = <<>>

ValidatedInput == call # NoCall /\ call.op = "validate_input" /\ ~call.verdict.raised

\* The query contains none of the injection, toxic or off-topic patterns (the
\* harmful targets of the malicious-intent stage are off-topic patterns too)
Clean(query) ==
    /\ ~ContainsAny(Lower(query), InjectionPatterns)
    /\ ~ContainsAny(Lower(query), ToxicKeywords)
    /\ ~ContainsAny(Lower(query), OffTopicPatterns)

WithinLimits(query) == Len(query) >= MinQueryLen /\ Len(query) <= MaxQueryLen

\* The verdict accepts the query as it is
Accepted(verdict, query) ==
    /\ verdict.valid
    /\ verdict.violations = <<>>
    /\ verdict.sanitized_input = query

\* The violations of a verdict that one validator reported
ReportedBy(verdict, validator) ==
    SelectSeq(verdict.violations, LAMBDA v : v.validator = validator)

\* The keyword stage of the relevance check applies to the query and finds no
\* topic keyword in it
LongAndUnrelated(query) ==
    /\ config.topic # <<>>
    /\ WordCount(query) > RelevanceWordLimit
    /\ ~ContainsAny(Lower(query), TopicKeywords)

\* C21 as stated: every query of 5 to 2000 characters with none of the
\* injection, toxic or off-topic patterns is accepted (valid, no violations,
\* sanitized query equal to the query), whatever the topic and however many
\* words it has.
C21_CleanQueryAccepted ==
    ValidatedInput /\ WithinLimits(call.text) /\ Clean(call.text)
        => Accepted(call.verdict, call.text)

\* C21: every validated query comes back as its own sanitized query.  A query
\* of 5 to 2000 characters with none of the injection, toxic or off-topic
\* patterns is accepted when the detector, if there is one, reports nothing
\* and the query is not a query of more than 10 words without a topic keyword
\* under a configured topic; without a detector, such a long unrelated query
\* is rejected with one Medium relevance violation as its only violation.
C21_CleanQueryAcceptedUnlessLongUnrelated ==
    ValidatedInput =>
        /\ call.verdict.sanitized_input = call.text
        /\ WithinLimits(call.text) /\ Clean(call.text) =>
              /\ (config.enabled /\ config.input_guardrails_available) =>
                     (call.guard # "fail" => Accepted(call.verdict, call.text))
              /\ (config.enabled /\ ~config.input_guardrails_available) =>
                     IF LongAndUnrelated(call.text)
                     THEN /\ ~call.verdict.valid
                          /\ Len(call.verdict.violations) = 1
                          /\ call.verdict.violations[1].validator = "relevance"
                          /\ call.verdict.violations[1].severity = "medium"
                     ELSE Accepted(call.verdict, call.text)
              /\ ~config.enabled => Accepted(call.verdict, call.text)

\* A clean query of more than 10 words that names the topic is accepted by
\* the deterministic checks under a configured topic
C21_Witness ==
    /\ ValidatedInput
    /\ WithinLimits(call.text) /\ Clean(call.text)
    /\ config.enabled /\ ~config.input_guardrails_available
    /\ config.topic # <<>>
    /\ WordCount(call.text) > RelevanceWordLimit
    /\ Accepted(call.verdict, call.text)

\* The call is one of OutputGuardrail.validate, and it returned a verdict
ValidatedOutput == call # NoCall /\ call.op = "validate_output" /\ ~call.verdict.raised

\* The call validated the sanitized text of the call before it, and both
\* returned a verdict
Revalidated ==
    /\ call # NoCall
    /\ call.op = "revalidate_output"
    /\ ~call.verdict.raised
    /\ ~call.first.verdict.raised

\* The PII violations of a verdict
PiiViolations(verdict) == SelectSeq(verdict.violations, LAMBDA v : v.validator = "pii")

\* The spans the PII violations of a verdict carry
PiiSpans(verdict) ==
    LET pii == PiiViolations(verdict)
    IN UNION {{pii[k].matches[m] : m \in 1..Len(pii[k].matches)} : k \in 1..Len(pii)}

\* C22 as stated: validating the sanitized text of a validation reports no PII
\* violation for a span that was redacted, and sanitizes it to itself:
\* sanitize(sanitize(r)) = sanitize(r).
C22_RedactionIdempotent ==
    Revalidated =>
        /\ PiiSpans(call.first.verdict) \cap PiiSpans(call.verdict) = {}
        /\ call.verdict.sanitized_output = call.first.verdict.sanitized_output

\* C22: validating the sanitized text of a validation reports no PII violation
\* carrying a span that the first validation redacted, and no redacted span
\* occurs in the text any more; the second validation leaves the sanitized
\* text as it is exactly when it reports no PII violation at all.
C22_RedactedSpansStayRedacted ==
    Revalidated =>
        /\ PiiSpans(call.first.verdict) \cap PiiSpans(call.verdict) = {}
        /\ \A span \in PiiSpans(call.first.verdict) : ~Contains(call.text, span)
        /\ call.verdict.sanitized_output = call.text <=> PiiViolations(call.verdict) = <<>>

\* A response with two addresses was redacted, the PII scan ran again on the
\* sanitized text and found nothing
C22_Witness ==
    /\ Revalidated
    /\ Cardinality(PiiSpans(call.first.verdict)) = 2
    /\ config.enabled /\ ~config.output_guardrails_available
    /\ PiiViolations(call.verdict) = <<>>
    /\ call.verdict.sanitized_output = call.first.verdict.sanitized_output
    /\ call.text # call.first.text

\* The PII violations of a verdict for one PII kind
PiiOfKind(verdict, pii_type) ==
    SelectSeq(verdict.violations,
              LAMBDA v : v.validator = "pii" /\ v.pii_type = pii_type)

\* The verdict reports the spans of one PII kind as the claim describes: one
\* High violation carrying all of them when there are any, none otherwise
ReportsKind(verdict, pii_type, spans) ==
    IF spans = <<>> THEN PiiOfKind(verdict, pii_type) = <<>>
    ELSE /\ Len(PiiOfKind(verdict, pii_type)) = 1
         /\ PiiOfKind(verdict, pii_type)[1].severity = "high"
         /\ PiiOfKind(verdict, pii_type)[1].matches = spans

\* None of the spans is left in the text
AllRedacted(text, spans) == \A m \in 1..Len(spans) : ~Contains(text, spans[m])

\* C23: for every response given to an enabled output validator, the verdict
\* holds exactly one High PII violation per PII kind (email, phone, SSN) that
\* occurs in the response, carrying all the spans of that kind, and none of
\* those spans is left in the sanitized text, which holds the redaction token
\* instead.
C23_OnePiiViolationPerKind ==
    ValidatedOutput /\ config.enabled =>
        \A k \in 1..Len(PiiTypes) :
            /\ ReportsKind(call.verdict, PiiTypes[k], FindAll(PiiTypes[k], call.text))
            /\ AllRedacted(call.verdict.sanitized_output, FindAll(PiiTypes[k], call.text))
            /\ FindAll(PiiTypes[k], call.text) # <<>>
                   => Contains(call.verdict.sanitized_output, Redacted)

\* What the length check reports for a query
LengthCheck(query) ==
    (IF Len(query) < MinQueryLen
     THEN <<LengthViolation("Query too short", "low")>> ELSE <<>>)
    \o
    (IF Len(query) > MaxQueryLen
     THEN <<LengthViolation("Query too long", "medium")>> ELSE <<>>)

\* C24: in every call of an enabled input validator all four checks run: the
\* verdict holds what the length check, the injection check, the toxicity
\* check and the relevance check each report for the query, whatever the
\* others reported, and what an available detector reports comes in addition.
C24_AllChecksRun ==
    ValidatedInput /\ config.enabled =>
        /\ ReportedBy(call.verdict, "length") = LengthCheck(call.text)
        /\ ReportedBy(call.verdict, "prompt_injection") = CheckPromptInjection(call.text)
        /\ ReportedBy(call.verdict, "toxic_language") = CheckToxicLanguage(call.text)
        /\ ReportedBy(call.verdict, "relevance") = CheckRelevance(config, call.text)
        /\ (config.input_guardrails_available /\ call.guard = "fail")
               => ReportedBy(call.verdict, "guardrails_ai") # <<>>

\* The query matches the malicious-intent combination or an off-topic pattern
MatchesRelevancePattern(query) ==
    \/ /\ ContainsAny(Lower(query), MaliciousPatterns)
       /\ ContainsAny(Lower(query), HarmfulTargets)
    \/ ContainsAny(Lower(query), OffTopicPatterns)

\* The relevance check is reached in the call: the validator is enabled and
\* has no detector
RelevanceChecked == config.enabled /\ ~config.input_guardrails_available

\* C25: a verdict of the input validator holds at most one relevance
\* violation; none when no topic is configured, and none for a query of 10 or
\* fewer words that matches no pattern.  Where the relevance check runs under
\* a configured topic, it reports one High violation when the malicious-intent
\* combination or an off-topic pattern matches, and otherwise one Medium
\* violation exactly when the query has more than 10 words and no topic
\* keyword.
C25_RelevanceStages ==
    ValidatedInput =>
        LET relevance == ReportedBy(call.verdict, "relevance")
            long == WordCount(call.text) > RelevanceWordLimit
        IN /\ Len(relevance) <= 1
           /\ config.topic = <<>> => relevance = <<>>
           /\ (~long /\ ~MatchesRelevancePattern(call.text)) => relevance = <<>>
           /\ (RelevanceChecked /\ config.topic # <<>>) =>
                  IF MatchesRelevancePattern(call.text)
                  THEN Len(relevance) = 1 /\ relevance[1].severity = "high"
                  ELSE IF long /\ ~ContainsAny(Lower(call.text), TopicKeywords)
                  THEN Len(relevance) = 1 /\ relevance[1].severity = "medium"
                  ELSE relevance = <<>>

\* A query of more than 10 words without a topic keyword matched an off-topic
\* pattern and received the High violation alone
C25_Witness ==
    /\ ValidatedInput
    /\ RelevanceChecked /\ config.topic # <<>>
    /\ MatchesRelevancePattern(call.text)
    /\ LongAndUnrelated(call.text)
    /\ Len(ReportedBy(call.verdict, "relevance")) = 1
    /\ ReportedBy(call.verdict, "relevance")[1].severity = "high"

\* The violations of the harmful-content scan for one category
HarmfulOfCategory(verdict, category) ==
    SelectSeq(verdict.violations,
              LAMBDA v : v.validator = "harmful_content" /\ v.category = category)

\* safety.prohibited_categories as the output validator reads it: empty when
\* the key is left out
ConfiguredProhibited ==
    IF config.prohibited_categories = <<Absent>> THEN <<>>
    ELSE config.prohibited_categories

\* The harmful-content scan is reached in the call: the validator is enabled
\* and has no detector, or its detector raised
HarmfulScanned ==
    config.enabled /\ (~config.output_guardrails_available \/ call.guard = "raise")

\* C26: where the harmful-content scan runs, a violation for a category is in
\* the verdict if and only if the response contains a keyword of the category
\* and the category is in the configured prohibited list or that list is
\* empty; no verdict holds two violations for one category; and under a
\* non-empty list naming none of the four categories no verdict holds a
\* harmful-content violation.
C26_HarmfulScanByCategory ==
    ValidatedOutput =>
        /\ \A k \in 1..Len(HarmfulCategories) :
              LET category == HarmfulCategories[k]
                  reported == HarmfulOfCategory(call.verdict, category)
              IN /\ Len(reported) <= 1
                 /\ HarmfulScanned =>
                        (Len(reported) = 1 <=>
                            /\ ContainsAny(Lower(call.text), HarmfulPatterns(category))
                            /\ \/ InList(category, ConfiguredProhibited)
                               \/ ConfiguredProhibited = <<>>)
        /\ (/\ ConfiguredProhibited # <<>>
            /\ \A k \in 1..Len(HarmfulCategories) :
                   ~InList(HarmfulCategories[k], ConfiguredProhibited))
               => ReportedBy(call.verdict, "harmful_content") = <<>>

\* A response with a violent and a hateful keyword was scanned under a list
\* naming the violent category only, and received the violent violation alone
C26_Witness ==
    /\ ValidatedOutput
    /\ HarmfulScanned
    /\ ConfiguredProhibited = <<"violent">>
    /\ ContainsAny(Lower(call.text), HarmfulPatterns("hateful"))
    /\ Len(ReportedBy(call.verdict, "harmful_content")) = 1
    /\ ReportedBy(call.verdict, "harmful_content")[1].category = "violent"

\* The factual-consistency violations of a verdict of one severity
FactualOfSeverity(verdict, severity) ==
    SelectSeq(verdict.violations,
              LAMBDA v : v.validator = "factual_consistency" /\ v.severity = severity)

\* The response holds a bracketed citation marker or names a reference or a
\* source
Cites(response) ==
    \/ Contains(response, <<"[">>) /\ Contains(response, <<"]">>)
    \/ Contains(Lower(response), <<"r","e","f","e","r","e","n","c","e">>)
    \/ Contains(Lower(response), <<"s","o","u","r","c","e">>)

\* The response holds one of the uncertainty phrases
Hedges(response) == ContainsAny(Lower(response), FabricationIndicators)

\* C27: a verdict of the output validator holds no factual_consistency
\* violation when no sources were given (None or an empty list).  With sources
\* it holds the Medium "no citations" violation exactly when the response
\* cites nothing, and the Low "uncertainty" violation exactly when the
\* response hedges, each decided without regard to the other.
C27_FactualOnlyWithSources ==
    ValidatedOutput =>
        LET uncited == FactualOfSeverity(call.verdict, "medium")
            hedged == FactualOfSeverity(call.verdict, "low")
        IN /\ call.sources = <<>> =>
                  ReportedBy(call.verdict, "factual_consistency") = <<>>
           /\ (config.enabled /\ call.sources # <<>>) =>
                  /\ Len(uncited) = (IF Cites(call.text) THEN 0 ELSE 1)
                  /\ Len(hedged) = (IF Hedges(call.text) THEN 1 ELSE 0)
                  /\ Len(ReportedBy(call.verdict, "factual_consistency"))
                         = Len(uncited) + Len(hedged)

\* A response that hedges and cites nothing was validated against sources and
\* received both violations
C27_Witness ==
    /\ ValidatedOutput
    /\ call.sources # <<>>
    /\ Len(FactualOfSeverity(call.verdict, "medium")) = 1
    /\ Len(FactualOfSeverity(call.verdict, "low")) = 1

\* The characters of s from position i on occur in t from position j on, in
\* order
RECURSIVE EmbedsFrom(_, _, _, _)
EmbedsFrom(s, i, t, j) ==
    IF i > Len(s) THEN TRUE
    ELSE IF j > Len(t) THEN FALSE
    ELSE IF s[i] = t[j] THEN EmbedsFrom(s, i + 1, t, j + 1)
    ELSE EmbedsFrom(s, i, t, j + 1)

\* s is t with characters left out
Embeds(s, t) == EmbedsFrom(s, 1, t, 1)

\* C28: the sanitized text of a verdict of the output validator is the
\* response itself whenever the verdict holds no PII violation, and so
\* whenever it is valid or holds only harmful-content, bias,
\* factual-consistency or detector violations.  A sanitized text that differs
\* from the response holds the redaction token, holds none of the spans the
\* PII violations carry, and without its redaction tokens is the response
\* with characters left out: nothing else was written into it.
C28_RedactionOnly ==
    ValidatedOutput =>
        /\ PiiViolations(call.verdict) = <<>> =>
               call.verdict.sanitized_output = call.text
        /\ call.verdict.valid => call.verdict.sanitized_output = call.text
        /\ call.verdict.sanitized_output # call.text =>
               /\ Contains(call.verdict.sanitized_output, Redacted)
               /\ \A span \in PiiSpans(call.verdict) :
                      ~Contains(call.verdict.sanitized_output, span)
               /\ Embeds(Replace(call.verdict.sanitized_output, Redacted, <<>>), call.text)

\* A response with a harmful keyword, an address and an uncertainty phrase was
\* validated: the address alone was replaced
C28_Witness ==
    /\ ValidatedOutput
    /\ ReportedBy(call.verdict, "harmful_content") # <<>>
    /\ PiiSpans(call.verdict) = {EmailOnly}
    /\ call.verdict.sanitized_output = Replace(call.text, EmailOnly, Redacted)
    /\ call.verdict.sanitized_output # call.text

\* The verdict of the check call c is valid: the validator returned and
\* reported nothing
ValidVerdict(c) == c.verdict.called /\ ~c.verdict.value.raised /\ c.verdict.value.valid

\* get_safety_stats reports every event as a violation, and a rate of 1 for a
\* log with events, 0 for an empty one
AllViolations(stats) ==
    /\ stats.violations = stats.total_events
    /\ "error" \notin DOMAIN stats.violation_rate
    /\ IF stats.total_events > 0
       THEN stats.violation_rate.num = stats.violation_rate.den
       ELSE stats.violation_rate.num = 0

\* C29: after any sequence of check_input, check_output and clear_events calls
\* every event in the log has safe = false, a check whose verdict is valid (or
\* that calls no validator) appends nothing, and get_safety_stats, whenever it
\* is called, reports violations = total_events and a violation_rate of 1 for
\* a non-empty log and 0 for an empty one.
C29_LogHoldsViolationsOnly ==
    /\ [](/\ \A i \in 1..Len(safety_events) : ~safety_events[i].safe
          /\ AllViolations(SafetyStats)
          /\ call.op = "get_safety_stats" => AllViolations(call.result))
    /\ [][(IsCheck(call') /\ (ValidVerdict(call') \/ ~call'.verdict.called))
              => safety_events' = safety_events]_vars

\* The statistics were read from a log that holds the event of one output
\* check
C29_Witness ==
    /\ call.op = "get_safety_stats"
    /\ Len(safety_events) = 1
    /\ safety_events[1].type = "output_violation"
    /\ call.result.violations = 1
    /\ call.result.violation_rate = [num |-> 1, den |-> 1]

\* Constructing a guardrail failed in SafetyManager.__init__
ConstructionFailed == ~config.guardrails_constructed

\* C30: a manager whose guardrails could not be constructed exists with both
\* guardrails absent, and every check_input and check_output call on it while
\* it is enabled returns safe with an empty violation list, calls no
\* validator, returns the response it was given, and leaves the event log as
\* it was, whatever the text.
C30_AbsentGuardrailsAllow ==
    /\ [](ConstructionFailed => ~input_guardrail /\ ~output_guardrail)
    /\ [][(ConstructionFailed /\ enabled /\ IsCheck(call')) =>
             /\ call'.result.safe
             /\ "violations" \in DOMAIN call'.result
             /\ call'.result.violations = <<>>
             /\ ~call'.verdict.called
             /\ call'.failure = "none"
             /\ call'.op = "check_output" => call'.result.response = call'.text
             /\ safety_events' = safety_events]_vars

\* A response holding an address was checked by an enabled manager without
\* guardrails and came back as it was
C30_Witness ==
    /\ ConstructionFailed
    /\ enabled
    /\ call.op = "check_output"
    /\ call.text = EmailOnly
    /\ call.result.safe
    /\ call.result.response = EmailOnly
    /\ safety_events = <<>>

====
